---- MODULE Spec2Model ----
(***************************************************************************)
(* Model of the Docker MCP server of src/src/index.ts: the translation     *)
(* cascade parseDockerCommand, the execution wrapper executeDockerCommand  *)
(* and the registered tool handlers.                                       *)
(*                                                                         *)
(* Text is kept as strings, read character by character where the source   *)
(* does (SubSeq(s, i, i) is the character at i), so that the regular       *)
(* expressions and the substring tests of the source are computed as       *)
(* JavaScript computes them.  A character a string of this notation cannot *)
(* hold is written as its escape (\\u2705, \\u0060).                       *)
(***************************************************************************)
EXTENDS Integers, Sequences, FiniteSets, TLC


(***************************************************************************)
(* Strings                                                                 *)
(***************************************************************************)
\* the character of s at position i
At(s, i) == SubSeq(s, i, i)

LowerLetters ==
  {"a","b","c","d","e","f","g","h","i","j","k","l","m",
   "n","o","p","q","r","s","t","u","v","w","x","y","z"}

UpperLetters ==
  {"A","B","C","D","E","F","G","H","I","J","K","L","M",
   "N","O","P","Q","R","S","T","U","V","W","X","Y","Z"}

Digits == {"0","1","2","3","4","5","6","7","8","9"}

\* \s
Space == {" ", "\t", "\n", "\r"}

\* [a-zA-Z0-9_-]
NameCls == LowerLetters \cup UpperLetters \cup Digits \cup {"_", "-"}

\* [a-zA-Z0-9/_.-]
ImageCls == NameCls \cup {"/", "."}

\* [a-zA-Z0-9._-]
TagCls == NameCls \cup {"."}

LowerOf ==
  [c \in UpperLetters |->
     CASE c = "A" -> "a" [] c = "B" -> "b" [] c = "C" -> "c" [] c = "D" -> "d"
       [] c = "E" -> "e" [] c = "F" -> "f" [] c = "G" -> "g" [] c = "H" -> "h"
       [] c = "I" -> "i" [] c = "J" -> "j" [] c = "K" -> "k" [] c = "L" -> "l"
       [] c = "M" -> "m" [] c = "N" -> "n" [] c = "O" -> "o" [] c = "P" -> "p"
       [] c = "Q" -> "q" [] c = "R" -> "r" [] c = "S" -> "s" [] c = "T" -> "t"
       [] c = "U" -> "u" [] c = "V" -> "v" [] c = "W" -> "w" [] c = "X" -> "x"
       [] c = "Y" -> "y" [] c = "Z" -> "z"]

\* String.prototype.toLowerCase
RECURSIVE ToLowerCase(_)
ToLowerCase(s) ==
  IF Len(s) = 0 THEN ""
  ELSE IF Len(s) = 1 THEN (IF s \in UpperLetters THEN LowerOf[s] ELSE s)
  ELSE ToLowerCase(SubSeq(s, 1, Len(s) \div 2))
       \o ToLowerCase(SubSeq(s, Len(s) \div 2 + 1, Len(s)))

RECURSIVE TrimStart(_), TrimEnd(_)
TrimStart(s) ==
  IF Len(s) > 0 /\ At(s, 1) \in Space THEN TrimStart(Tail(s)) ELSE s

TrimEnd(s) ==
  IF Len(s) > 0 /\ At(s, Len(s)) \in Space THEN TrimEnd(SubSeq(s, 1, Len(s) - 1)) ELSE s

\* String.prototype.trim
Trim(s) == TrimEnd(TrimStart(s))

\* the text `lit` stands in s at position i
HasAt(s, i, lit) ==
  /\ i + Len(lit) - 1 <= Len(s)
  /\ SubSeq(s, i, i + Len(lit) - 1) = lit

\* String.prototype.includes
Includes(s, lit) == \E i \in 1..(Len(s) + 1) : HasAt(s, i, lit)

\* String.prototype.startsWith
StartsWith(s, lit) == HasAt(s, 1, lit)

(***************************************************************************)
(* Regular expressions, matched as a backtracking engine matches them: the *)
(* alternatives of a choice in order, a repetition greedy, the first       *)
(* success at the leftmost start position.                                 *)
(***************************************************************************)
L(w)       == [t |-> "lit", s |-> w]
Plus(c)    == [t |-> "plus", c |-> c, neg |-> FALSE]
NotPlus(c) == [t |-> "plus", c |-> c, neg |-> TRUE]
Star(c)    == [t |-> "star", c |-> c, neg |-> FALSE]
Alt(a)     == [t |-> "alt", a |-> a]
Opt(r)     == [t |-> "opt", r |-> r]
Cap(n, r)  == [t |-> "cap", n |-> n, r |-> r]

\* (w1|w2|...) over literal words
Words(ws) == Alt([k \in 1..Len(ws) |-> <<L(ws[k])>>])

\* a match: where it begins (b), the position after its end (e), its groups
NoMatch == [ok |-> FALSE, b |-> 0, e |-> 0, caps |-> <<>>]

InCls(ch, h) == IF h.neg THEN ch \notin h.c ELSE ch \in h.c

RECURSIVE RunLen(_, _, _)
RunLen(s, i, h) ==
  IF i <= Len(s) /\ InCls(At(s, i), h) THEN 1 + RunLen(s, i + 1, h) ELSE 0

\* Attempts are made in an order; an attempt is <<its place in the order, what
\* came of it>>.  The engine takes the first attempt that succeeds.
FirstOf(attempts) ==
  LET ok == {p \in attempts : p[2].ok}
  IN IF ok = {} THEN NoMatch
     ELSE (CHOOSE p \in ok : \A q \in ok : p[1] <= q[1])[2]

RECURSIVE MatchAt(_, _, _, _), MatchHead(_, _, _, _, _), TryAlts(_, _, _, _, _),
          TryRep(_, _, _, _, _)
\* the expression re matches s from position i on, with the groups caps closed so far
MatchAt(re, s, i, caps) ==
  IF Len(re) = 0 THEN [ok |-> TRUE, b |-> 0, e |-> i, caps |-> caps]
  ELSE MatchHead(Head(re), Tail(re), s, i, caps)

\* the element h, then the rest of the expression
MatchHead(h, rest, s, i, caps) ==
  CASE h.t = "lit" ->
         IF HasAt(s, i, h.s) THEN MatchAt(rest, s, i + Len(h.s), caps) ELSE NoMatch
    [] h.t = "plus" -> TryRep(rest, s, caps, i + RunLen(s, i, h), i + 1)
    [] h.t = "star" -> TryRep(rest, s, caps, i + RunLen(s, i, h), i)
    [] h.t = "alt" -> TryAlts(h.a, rest, s, i, caps)
    [] h.t = "opt" -> TryAlts(<<h.r, <<>>>>, rest, s, i, caps)
    [] h.t = "cap" ->
         MatchAt(h.r \o <<[t |-> "end", n |-> h.n, i |-> i]>> \o rest, s, i, caps)
    [] h.t = "end" ->
         MatchAt(rest, s, i, (h.n :> SubSeq(s, h.i, i - 1)) @@ caps)

\* the alternatives in the order they are written
TryAlts(alts, rest, s, i, caps) ==
  FirstOf({<<k, MatchAt(alts[k] \o rest, s, i, caps)>> : k \in 1..Len(alts)})

\* a greedy repetition: it may end at `hi`, and gives back one character at a
\* time down to `lo`
TryRep(rest, s, caps, hi, lo) ==
  FirstOf({<<hi - k, MatchAt(rest, s, k, caps)>> : k \in lo..hi})

\* a match that begins at i
StartingAt(r, i) == IF r.ok THEN [r EXCEPT !.b = i] ELSE r

\* the leftmost start position at which the expression matches
SearchFrom(re, s, from) ==
  FirstOf({<<i, StartingAt(MatchAt(re, s, i, <<>>), i)>> : i \in from..(Len(s) + 1)})

\* String.prototype.match with a regular expression that has no g flag
Match(s, re) == SearchFrom(re, s, 1)

\* match[n] as a template literal prints it: a group that took no part in
\* the match, or that the expression does not have, is undefined
Group(m, n) == IF n \in DOMAIN m.caps THEN m.caps[n] ELSE "undefined"

\* match[n] || ""
GroupOr(m, n, dflt) ==
  IF n \in DOMAIN m.caps /\ Len(m.caps[n]) > 0 THEN m.caps[n] ELSE dflt

(***************************************************************************)
(* parseDockerCommand: the translation cascade.  A branch is its test      *)
(* expression, the expression whose groups it reads, and its template.     *)
(* The groups of a test expression are never read, so only those of the    *)
(* second expression are numbered.                                         *)
(***************************************************************************)
Hit(cmd) == [hit |-> TRUE, cmd |-> cmd]

Miss == [hit |-> FALSE, cmd |-> ""]

Ws == Plus(Space)

Name == Plus(NameCls)

OptWord(w) == Opt(<<L(w), Ws>>)

\* /(list|show|display|get)\s+(all\s+)?(containers?|running|stopped)/
ListContainers(input) ==
  LET ListContainersRe ==
      <<Words(<<"list", "show", "display", "get">>), Ws, OptWord("all"),
        Alt(<< <<L("container"), Opt(<<L("s")>>)>>, <<L("running")>>, <<L("stopped")>> >>)>>
  IN
  IF Match(input, ListContainersRe).ok
  THEN IF Includes(input, "all") \/ Includes(input, "stopped")
       THEN Hit("docker ps -a")
       ELSE IF Includes(input, "running") THEN Hit("docker ps")
       ELSE Hit("docker ps -a")
  ELSE Miss

\* /(what|which)\s+containers?\s+are\s+(running|active)/
WhichContainers(input) ==
  LET WhichContainersRe ==
      <<Words(<<"what", "which">>), Ws, L("container"), Opt(<<L("s")>>), Ws, L("are"), Ws,
        Words(<<"running", "active">>)>>
  IN
  IF Match(input, WhichContainersRe).ok THEN Hit("docker ps") ELSE Miss

\* a lifecycle branch: /(verbs)\s+(container\s+)?([a-zA-Z0-9_-]+)/ tested,
\* /(verbs)\s+(?:container\s+)?([a-zA-Z0-9_-]+)/ read
VerbNameTest(verbs, word) == <<Words(verbs), Ws, OptWord(word), Name>>

VerbNameRe(verbs, word) == <<Cap(1, <<Words(verbs)>>), Ws, OptWord(word), Cap(2, <<Name>>)>>

StartContainer(input) ==
  LET StartTest == VerbNameTest(<<"start", "run", "launch">>, "container")
      StartRe == VerbNameRe(<<"start", "run", "launch">>, "container")
  IN
  IF Match(input, StartTest).ok
  THEN LET match == Match(input, StartRe)
       IN IF match.ok THEN Hit("docker start " \o Group(match, 2)) ELSE Miss
  ELSE Miss

StopContainer(input) ==
  LET StopTest == VerbNameTest(<<"stop", "halt", "kill">>, "container")
      StopRe == VerbNameRe(<<"stop", "halt", "kill">>, "container")
  IN
  IF Match(input, StopTest).ok
  THEN LET match == Match(input, StopRe)
           action == IF match.ok /\ Group(match, 1) = "kill" THEN "kill" ELSE "stop"
       IN IF match.ok
          THEN Hit("docker " \o action \o " " \o Group(match, 3))
          ELSE Miss
  ELSE Miss

RestartContainer(input) ==
  LET RestartTest == VerbNameTest(<<"restart", "reboot">>, "container")
      RestartRe == VerbNameRe(<<"restart", "reboot">>, "container")
  IN
  IF Match(input, RestartTest).ok
  THEN LET match == Match(input, RestartRe)
       IN IF match.ok THEN Hit("docker restart " \o Group(match, 3)) ELSE Miss
  ELSE Miss

RemoveContainer(input) ==
  LET RemoveTest == VerbNameTest(<<"remove", "delete", "rm">>, "container")
      RemoveRe == VerbNameRe(<<"remove", "delete", "rm">>, "container")
  IN
  IF Match(input, RemoveTest).ok
  THEN LET match == Match(input, RemoveRe)
       IN IF match.ok THEN Hit("docker rm " \o Group(match, 3)) ELSE Miss
  ELSE Miss

\* /(inspect|examine|details?)\s+(container\s+)?([a-zA-Z0-9_-]+)/
InspectContainer(input) ==
  LET InspectVerbs == Alt(<< <<L("inspect")>>, <<L("examine")>>, <<L("detail"), Opt(<<L("s")>>)>> >>)
      InspectTest == <<InspectVerbs, Ws, OptWord("container"), Name>>
      InspectRe == <<Cap(1, <<InspectVerbs>>), Ws, OptWord("container"), Cap(2, <<Name>>)>>
  IN
  IF Match(input, InspectTest).ok
  THEN LET match == Match(input, InspectRe)
       IN IF match.ok THEN Hit("docker inspect " \o Group(match, 3)) ELSE Miss
  ELSE Miss

\* /(logs?|output)\s+(from\s+)?(container\s+)?([a-zA-Z0-9_-]+)/
\* and /(\d+)\s+lines?/ for the line count
ContainerLogs(input) ==
  LET LogsVerbs == Alt(<< <<L("log"), Opt(<<L("s")>>)>>, <<L("output")>> >>)
      LogsTest == <<LogsVerbs, Ws, OptWord("from"), OptWord("container"), Name>>
      LogsRe == <<Cap(1, <<LogsVerbs>>), Ws, OptWord("from"), OptWord("container"), Cap(2, <<Name>>)>>
      LinesRe == <<Cap(1, <<Plus(Digits)>>), Ws, L("line"), Opt(<<L("s")>>)>>
  IN
  IF Match(input, LogsTest).ok
  THEN LET match == Match(input, LogsRe)
           follow == IF Includes(input, "follow") \/ Includes(input, "tail")
                     THEN " -f" ELSE ""
           lm == Match(input, LinesRe)
           lines == IF lm.ok THEN " --tail " \o Group(lm, 1) ELSE ""
       IN IF match.ok
          THEN Hit("docker logs" \o follow \o lines \o " " \o Group(match, 2))
          ELSE Miss
  ELSE Miss

\* /(exec|execute|run)\s+(in|into)\s+(container\s+)?([a-zA-Z0-9_-]+)/
ExecInContainer(input) ==
  LET ExecTest ==
      <<Words(<<"exec", "execute", "run">>), Ws, Words(<<"in", "into">>), Ws,
        OptWord("container"), Name>>
      ExecRe ==
      <<Cap(1, <<Words(<<"exec", "execute", "run">>)>>), Ws, Words(<<"in", "into">>), Ws,
        OptWord("container"), Cap(2, <<Name>>)>>
  IN
  IF Match(input, ExecTest).ok
  THEN LET match == Match(input, ExecRe)
           command == IF Includes(input, "bash") THEN "bash"
                      ELSE IF Includes(input, "sh") THEN "sh" ELSE "bash"
       IN IF match.ok
          THEN Hit("docker exec -it " \o Group(match, 2) \o " " \o command)
          ELSE Miss
  ELSE Miss

\* /(list|show|display|get)\s+(all\s+)?(images?|repos?|repositories)/
ListImages(input) ==
  LET ListImagesRe ==
      <<Words(<<"list", "show", "display", "get">>), Ws, OptWord("all"),
        Alt(<< <<L("image"), Opt(<<L("s")>>)>>, <<L("repo"), Opt(<<L("s")>>)>>,
               <<L("repositories")>> >>)>>
  IN
  IF Match(input, ListImagesRe).ok
  THEN IF Includes(input, "dangling") THEN Hit("docker images -f dangling=true")
       ELSE Hit("docker images")
  ELSE Miss

Image == Plus(ImageCls)

\* /(verbs)\s+(image\s+)?([a-zA-Z0-9/_.-]+)(:([a-zA-Z0-9._-]+))?/ tested,
\* /(verbs)\s+(?:image\s+)?([a-zA-Z0-9/_.-]+)(?::([a-zA-Z0-9._-]+))?/ read
ImageTagTest(verbs) ==
  <<Words(verbs), Ws, OptWord("image"), Image, Opt(<<L(":"), Plus(TagCls)>>)>>

ImageTagRe(verbs) ==
  <<Cap(1, <<Words(verbs)>>), Ws, OptWord("image"), Cap(2, <<Image>>),
    Opt(<<L(":"), Cap(3, <<Plus(TagCls)>>)>>)>>

PullImage(input) ==
  LET PullTest == ImageTagTest(<<"pull", "download", "fetch">>)
      PullRe == ImageTagRe(<<"pull", "download", "fetch">>)
  IN
  IF Match(input, PullTest).ok
  THEN LET match == Match(input, PullRe)
           image == Group(match, 2)
           tag == GroupOr(match, 3, IF Includes(input, "latest") THEN "latest" ELSE "")
       IN IF match.ok
          THEN Hit("docker pull " \o image \o (IF Len(tag) > 0 THEN ":" \o tag ELSE ""))
          ELSE Miss
  ELSE Miss

PushImage(input) ==
  LET PushTest == ImageTagTest(<<"push", "upload">>)
      PushRe == ImageTagRe(<<"push", "upload">>)
  IN
  IF Match(input, PushTest).ok
  THEN LET match == Match(input, PushRe)
           image == Group(match, 2)
           tag == GroupOr(match, 3, "")
       IN IF match.ok
          THEN Hit("docker push " \o image \o (IF Len(tag) > 0 THEN ":" \o tag ELSE ""))
          ELSE Miss
  ELSE Miss

\* /(build|create)\s+(image\s+)?([a-zA-Z0-9/_.-]+)/
\* /dockerfile[:\s]+([^\s]+)/
\* /(?:from|in)\s+([^\s]+)/
BuildImage(input) ==
  LET BuildTest == <<Words(<<"build", "create">>), Ws, OptWord("image"), Image>>
      BuildRe == <<Cap(1, <<Words(<<"build", "create">>)>>), Ws, OptWord("image"), Cap(2, <<Image>>)>>
      DockerfileRe == <<L("dockerfile"), Plus({":"} \cup Space), Cap(1, <<NotPlus(Space)>>)>>
      ContextRe == <<Words(<<"from", "in">>), Ws, Cap(1, <<NotPlus(Space)>>)>>
  IN
  IF Match(input, BuildTest).ok
  THEN LET match == Match(input, BuildRe)
           dm == Match(input, DockerfileRe)
           dockerfile == IF Includes(input, "dockerfile")
                         THEN " -f " \o (IF dm.ok THEN GroupOr(dm, 1, "Dockerfile")
                                            ELSE "Dockerfile")
                         ELSE ""
           cm == Match(input, ContextRe)
           context == IF cm.ok THEN " " \o Group(cm, 1) ELSE " ."
       IN IF match.ok
          THEN Hit("docker build" \o dockerfile \o " -t " \o Group(match, 3) \o context)
          ELSE Miss
  ELSE Miss

\* /(remove|delete|rm)\s+(image\s+)?([a-zA-Z0-9/_.-]+)/
RemoveImage(input) ==
  LET RmiTest == <<Words(<<"remove", "delete", "rm">>), Ws, OptWord("image"), Image>>
      RmiRe ==
      <<Cap(1, <<Words(<<"remove", "delete", "rm">>)>>), Ws, OptWord("image"), Cap(2, <<Image>>)>>
  IN
  IF Match(input, RmiTest).ok
  THEN LET match == Match(input, RmiRe)
           force == IF Includes(input, "force") THEN " -f" ELSE ""
       IN IF match.ok THEN Hit("docker rmi" \o force \o " " \o Group(match, 3)) ELSE Miss
  ELSE Miss

\* /(tag|label)\s+(image\s+)?([a-zA-Z0-9/_.-]+)\s+(as\s+)?([a-zA-Z0-9/_.-]+)/
TagImage(input) ==
  LET TagTest ==
      <<Words(<<"tag", "label">>), Ws, OptWord("image"), Image, Ws, OptWord("as"), Image>>
      TagRe ==
      <<Cap(1, <<Words(<<"tag", "label">>)>>), Ws, OptWord("image"), Cap(2, <<Image>>), Ws,
        OptWord("as"), Cap(3, <<Image>>)>>
  IN
  IF Match(input, TagTest).ok
  THEN LET match == Match(input, TagRe)
       IN IF match.ok
          THEN Hit("docker tag " \o Group(match, 2) \o " " \o Group(match, 3))
          ELSE Miss
  ELSE Miss

\* /(list|show|display)\s+(all\s+)?(volumes?|storage)/
ListVolumes(input) ==
  LET ListVolumesRe ==
      <<Words(<<"list", "show", "display">>), Ws, OptWord("all"),
        Alt(<< <<L("volume"), Opt(<<L("s")>>)>>, <<L("storage")>> >>)>>
  IN
  IF Match(input, ListVolumesRe).ok
  THEN IF Includes(input, "dangling") THEN Hit("docker volume ls -f dangling=true")
       ELSE Hit("docker volume ls")
  ELSE Miss

CreateVolume(input) ==
  LET CreateVolumeTest == VerbNameTest(<<"create", "make">>, "volume")
      CreateVolumeRe == VerbNameRe(<<"create", "make">>, "volume")
  IN
  IF Match(input, CreateVolumeTest).ok
  THEN LET match == Match(input, CreateVolumeRe)
       IN IF match.ok THEN Hit("docker volume create " \o Group(match, 2)) ELSE Miss
  ELSE Miss

RemoveVolume(input) ==
  LET RemoveVolumeTest == VerbNameTest(<<"remove", "delete">>, "volume")
      RemoveVolumeRe == VerbNameRe(<<"remove", "delete">>, "volume")
  IN
  IF Match(input, RemoveVolumeTest).ok
  THEN LET match == Match(input, RemoveVolumeRe)
       IN IF match.ok THEN Hit("docker volume rm " \o Group(match, 3)) ELSE Miss
  ELSE Miss

InspectVolume(input) ==
  LET InspectVolumeTest == VerbNameTest(<<"inspect", "examine">>, "volume")
      InspectVolumeRe == VerbNameRe(<<"inspect", "examine">>, "volume")
  IN
  IF Match(input, InspectVolumeTest).ok
  THEN LET match == Match(input, InspectVolumeRe)
       IN IF match.ok THEN Hit("docker volume inspect " \o Group(match, 3)) ELSE Miss
  ELSE Miss

\* /(list|show|display)\s+(all\s+)?(networks?|networking)/
ListNetworks(input) ==
  LET ListNetworksRe ==
      <<Words(<<"list", "show", "display">>), Ws, OptWord("all"),
        Alt(<< <<L("network"), Opt(<<L("s")>>)>>, <<L("networking")>> >>)>>
  IN
  IF Match(input, ListNetworksRe).ok THEN Hit("docker network ls") ELSE Miss

CreateNetwork(input) ==
  LET CreateNetworkTest == VerbNameTest(<<"create", "make">>, "network")
      CreateNetworkRe == VerbNameRe(<<"create", "make">>, "network")
  IN
  IF Match(input, CreateNetworkTest).ok
  THEN LET match == Match(input, CreateNetworkRe)
           driver == IF Includes(input, "bridge") THEN " --driver bridge"
                     ELSE IF Includes(input, "overlay") THEN " --driver overlay"
                     ELSE ""
       IN IF match.ok
          THEN Hit("docker network create" \o driver \o " " \o Group(match, 2))
          ELSE Miss
  ELSE Miss

RemoveNetwork(input) ==
  LET RemoveNetworkTest == VerbNameTest(<<"remove", "delete">>, "network")
      RemoveNetworkRe == VerbNameRe(<<"remove", "delete">>, "network")
  IN
  IF Match(input, RemoveNetworkTest).ok
  THEN LET match == Match(input, RemoveNetworkRe)
       IN IF match.ok THEN Hit("docker network rm " \o Group(match, 3)) ELSE Miss
  ELSE Miss

\* /(connect|attach)\s+([a-zA-Z0-9_-]+)\s+(to\s+)?([a-zA-Z0-9_-]+)/ tested,
\* /(connect|attach)\s+([a-zA-Z0-9_-]+)\s+(?:to\s+)?([a-zA-Z0-9_-]+)/ read
LinkTest(verbs, word) == <<Words(verbs), Ws, Name, Ws, OptWord(word), Name>>

LinkRe(verbs, word) ==
  <<Cap(1, <<Words(verbs)>>), Ws, Cap(2, <<Name>>), Ws, OptWord(word), Cap(3, <<Name>>)>>

NetworkConnect(input) ==
  LET ConnectTest == LinkTest(<<"connect", "attach">>, "to")
      ConnectRe == LinkRe(<<"connect", "attach">>, "to")
  IN
  IF Match(input, ConnectTest).ok
  THEN LET match == Match(input, ConnectRe)
       IN IF match.ok
          THEN Hit("docker network connect " \o Group(match, 3) \o " " \o Group(match, 2))
          ELSE Miss
  ELSE Miss

NetworkDisconnect(input) ==
  LET DisconnectTest == LinkTest(<<"disconnect", "detach">>, "from")
      DisconnectRe == LinkRe(<<"disconnect", "detach">>, "from")
  IN
  IF Match(input, DisconnectTest).ok
  THEN LET match == Match(input, DisconnectRe)
       IN IF match.ok
          THEN Hit("docker network disconnect " \o Group(match, 4) \o " "
                   \o Group(match, 2))
          ELSE Miss
  ELSE Miss

\* /(system\s+)?(info|information|details)/
SystemInfo(input) ==
  LET SystemInfoRe == <<OptWord("system"), Words(<<"info", "information", "details">>)>>
  IN
  IF Match(input, SystemInfoRe).ok THEN Hit("docker system info") ELSE Miss

\* /(version|ver)/
Version(input) ==
  LET VersionRe == <<Words(<<"version", "ver">>)>>
  IN
  IF Match(input, VersionRe).ok
  THEN Hit("docker --version && docker-compose --version")
  ELSE Miss

\* /(stats|statistics|status|monitor)/
Stats(input) ==
  LET StatsRe == <<Words(<<"stats", "statistics", "status", "monitor">>)>>
  IN
  IF Match(input, StatsRe).ok
  THEN LET noStream == ~Includes(input, "follow") /\ ~Includes(input, "continuous")
       IN Hit("docker stats" \o (IF noStream THEN " --no-stream" ELSE ""))
  ELSE Miss

\* /(disk\s+usage|space|storage\s+usage)/
DiskUsage(input) ==
  LET DiskUsageRe ==
      <<Alt(<< <<L("disk"), Ws, L("usage")>>, <<L("space")>>, <<L("storage"), Ws, L("usage")>> >>)>>
  IN
  IF Match(input, DiskUsageRe).ok
  THEN LET verbose == IF Includes(input, "verbose") \/ Includes(input, "detailed")
                      THEN " -v" ELSE ""
       IN Hit("docker system df" \o verbose)
  ELSE Miss

\* /(clean\s*up?|prune|cleanup)/
Cleanup(input) ==
  LET CleanupRe ==
      <<Alt(<< <<L("clean"), Star(Space), L("u"), Opt(<<L("p")>>)>>, <<L("prune")>>,
               <<L("cleanup")>> >>)>>
  IN
  IF Match(input, CleanupRe).ok
  THEN IF Includes(input, "all") \/ Includes(input, "everything")
       THEN Hit("docker system prune -a -f")
       ELSE IF Includes(input, "volumes") THEN Hit("docker system prune --volumes -f")
       ELSE Hit("docker system prune -f")
  ELSE Miss

\* /service\s+([a-zA-Z0-9_-]+)/
ServiceArg(input) ==
  LET ServiceRe == <<L("service"), Ws, Cap(1, <<Name>>)>>
  IN
  LET m == Match(input, ServiceRe) IN IF m.ok THEN " " \o Group(m, 1) ELSE ""

\* /(compose\s+)?(up|start|launch)/
ComposeUp(input) ==
  LET ComposeUpRe == <<OptWord("compose"), Words(<<"up", "start", "launch">>)>>
  IN
  IF Match(input, ComposeUpRe).ok
  THEN LET detached == ~Includes(input, "foreground") /\ ~Includes(input, "attached")
           build == Includes(input, "build") \/ Includes(input, "rebuild")
       IN Hit("docker-compose up" \o (IF detached THEN " -d" ELSE "")
              \o (IF build THEN " --build" ELSE "") \o ServiceArg(input))
  ELSE Miss

\* /(compose\s+)?(down|stop|halt)/
ComposeDown(input) ==
  LET ComposeDownRe == <<OptWord("compose"), Words(<<"down", "stop", "halt">>)>>
  IN
  IF Match(input, ComposeDownRe).ok
  THEN LET volumes == IF Includes(input, "volumes") \/ Includes(input, "data")
                      THEN " --volumes" ELSE ""
           images == IF Includes(input, "images") THEN " --rmi all" ELSE ""
       IN Hit("docker-compose down" \o volumes \o images)
  ELSE Miss

\* /(compose\s+)?(logs|output)/
\* /(?:from\s+|service\s+)([a-zA-Z0-9_-]+)/
ComposeLogs(input) ==
  LET ComposeLogsRe == <<OptWord("compose"), Words(<<"logs", "output">>)>>
      FromServiceRe ==
      <<Alt(<< <<L("from"), Ws>>, <<L("service"), Ws>> >>), Cap(1, <<Name>>)>>
  IN
  IF Match(input, ComposeLogsRe).ok
  THEN LET follow == IF Includes(input, "follow") \/ Includes(input, "tail")
                     THEN " -f" ELSE ""
           m == Match(input, FromServiceRe)
           service == IF m.ok THEN " " \o Group(m, 1) ELSE ""
       IN Hit("docker-compose logs" \o follow \o service)
  ELSE Miss

\* /(compose\s+)?(ps|status|services)/
ComposePs(input) ==
  LET ComposePsRe == <<OptWord("compose"), Words(<<"ps", "status", "services">>)>>
  IN
  IF Match(input, ComposePsRe).ok THEN Hit("docker-compose ps") ELSE Miss

\* /(compose\s+)?(restart|reboot)/
ComposeRestart(input) ==
  LET ComposeRestartRe == <<OptWord("compose"), Words(<<"restart", "reboot">>)>>
  IN
  IF Match(input, ComposeRestartRe).ok
  THEN Hit("docker-compose restart" \o ServiceArg(input))
  ELSE Miss

\* /(compose\s+)?(build|rebuild)/
ComposeBuild(input) ==
  LET ComposeBuildRe == <<OptWord("compose"), Words(<<"build", "rebuild">>)>>
  IN
  IF Match(input, ComposeBuildRe).ok
  THEN LET noCache == IF Includes(input, "fresh") \/ Includes(input, "clean")
                      THEN " --no-cache" ELSE ""
       IN Hit("docker-compose build" \o noCache \o ServiceArg(input))
  ELSE Miss

\* /(search|find)\s+(for\s+)?([a-zA-Z0-9/_.-]+)/
SearchHub(input) ==
  LET SearchTest == <<Words(<<"search", "find">>), Ws, OptWord("for"), Image>>
      SearchRe == <<Cap(1, <<Words(<<"search", "find">>)>>), Ws, OptWord("for"), Cap(2, <<Image>>)>>
  IN
  IF Match(input, SearchTest).ok
  THEN LET match == Match(input, SearchRe)
       IN IF match.ok THEN Hit("docker search " \o Group(match, 2)) ELSE Miss
  ELSE Miss

\* /(copy|cp)\s+([^\s]+)\s+(from|to)\s+([a-zA-Z0-9_-]+)/
CopyFiles(input) ==
  LET CopyRe ==
      <<Cap(1, <<Words(<<"copy", "cp">>)>>), Ws, Cap(2, <<NotPlus(Space)>>), Ws,
        Cap(3, <<Words(<<"from", "to">>)>>), Ws, Cap(4, <<Name>>)>>
  IN
  IF Match(input, CopyRe).ok
  THEN LET match == Match(input, CopyRe)
           path == Group(match, 2)
           direction == Group(match, 3)
           container == Group(match, 4)
       IN IF match.ok
          THEN IF direction = "from"
               THEN Hit("docker cp " \o container \o ":" \o path \o " .")
               ELSE Hit("docker cp " \o path \o " " \o container \o ":/tmp/")
          ELSE Miss
  ELSE Miss

\* /(port|ports)\s+(of\s+|for\s+)?([a-zA-Z0-9_-]+)/
PortInfo(input) ==
  LET OfFor == Opt(<<Alt(<< <<L("of"), Ws>>, <<L("for"), Ws>> >>)>>)
      PortTest == <<Words(<<"port", "ports">>), Ws, OfFor, Name>>
      PortRe == <<Cap(1, <<Words(<<"port", "ports">>)>>), Ws, OfFor, Cap(2, <<Name>>)>>
  IN
  IF Match(input, PortTest).ok
  THEN LET match == Match(input, PortRe)
       IN IF match.ok THEN Hit("docker port " \o Group(match, 2)) ELSE Miss
  ELSE Miss

\* /(processes?|ps|top)\s+(in|inside)\s+([a-zA-Z0-9_-]+)/
TopInContainer(input) ==
  LET TopVerbs == Alt(<< <<L("processe"), Opt(<<L("s")>>)>>, <<L("ps")>>, <<L("top")>> >>)
      TopTest == <<TopVerbs, Ws, Words(<<"in", "inside">>), Ws, Name>>
      TopRe == <<Cap(1, <<TopVerbs>>), Ws, Words(<<"in", "inside">>), Ws, Cap(2, <<Name>>)>>
  IN
  IF Match(input, TopTest).ok
  THEN LET match == Match(input, TopRe)
       IN IF match.ok THEN Hit("docker top " \o Group(match, 3)) ELSE Miss
  ELSE Miss

\* /login\s+(?:to\s+)?([a-zA-Z0-9._-]+)?/
Login(input) ==
  LET LoginRe == <<L("login"), Ws, OptWord("to"), Opt(<<Cap(1, <<Plus(TagCls)>>)>>)>>
  IN
  IF Match(input, LoginRe).ok
  THEN LET registry == GroupOr(Match(input, LoginRe), 1, "")
       IN Hit("docker login" \o (IF Len(registry) > 0 THEN " " \o registry ELSE ""))
  ELSE Miss

\* /logout\s+(?:from\s+)?([a-zA-Z0-9._-]+)?/
Logout(input) ==
  LET LogoutRe == <<L("logout"), Ws, OptWord("from"), Opt(<<Cap(1, <<Plus(TagCls)>>)>>)>>
  IN
  IF Match(input, LogoutRe).ok
  THEN LET registry == GroupOr(Match(input, LogoutRe), 1, "")
       IN Hit("docker logout" \o (IF Len(registry) > 0 THEN " " \o registry ELSE ""))
  ELSE Miss

\* "If no pattern matches but it starts with docker, pass through"
PassThrough(input) ==
  IF StartsWith(input, "docker") THEN Hit(input) ELSE Miss

\* /(help|usage|commands)/
Help(input) ==
  LET HelpRe == <<Words(<<"help", "usage", "commands">>)>>
  IN
  IF Match(input, HelpRe).ok THEN Hit("docker --help") ELSE Miss

\* the branches of the cascade, in the order of the source
Branch(k, input) ==
  CASE k = 1 -> ListContainers(input)
    [] k = 2 -> WhichContainers(input)
    [] k = 3 -> StartContainer(input)
    [] k = 4 -> StopContainer(input)
    [] k = 5 -> RestartContainer(input)
    [] k = 6 -> RemoveContainer(input)
    [] k = 7 -> InspectContainer(input)
    [] k = 8 -> ContainerLogs(input)
    [] k = 9 -> ExecInContainer(input)
    [] k = 10 -> ListImages(input)
    [] k = 11 -> PullImage(input)
    [] k = 12 -> PushImage(input)
    [] k = 13 -> BuildImage(input)
    [] k = 14 -> RemoveImage(input)
    [] k = 15 -> TagImage(input)
    [] k = 16 -> ListVolumes(input)
    [] k = 17 -> CreateVolume(input)
    [] k = 18 -> RemoveVolume(input)
    [] k = 19 -> InspectVolume(input)
    [] k = 20 -> ListNetworks(input)
    [] k = 21 -> CreateNetwork(input)
    [] k = 22 -> RemoveNetwork(input)
    [] k = 23 -> NetworkConnect(input)
    [] k = 24 -> NetworkDisconnect(input)
    [] k = 25 -> SystemInfo(input)
    [] k = 26 -> Version(input)
    [] k = 27 -> Stats(input)
    [] k = 28 -> DiskUsage(input)
    [] k = 29 -> Cleanup(input)
    [] k = 30 -> ComposeUp(input)
    [] k = 31 -> ComposeDown(input)
    [] k = 32 -> ComposeLogs(input)
    [] k = 33 -> ComposePs(input)
    [] k = 34 -> ComposeRestart(input)
    [] k = 35 -> ComposeBuild(input)
    [] k = 36 -> SearchHub(input)
    [] k = 37 -> CopyFiles(input)
    [] k = 38 -> PortInfo(input)
    [] k = 39 -> TopInContainer(input)
    [] k = 40 -> Login(input)
    [] k = 41 -> Logout(input)
    [] k = 42 -> PassThrough(input)
    [] k = 43 -> Help(input)
    [] OTHER -> Hit("docker " \o input)

\* the branches in the order of the source, the fallback last: first match wins
Cascade(input) ==
  LET hits == {p \in {<<k, Branch(k, input)>> : k \in 1..44} : p[2].hit}
  IN CHOOSE p \in hits : \A q \in hits : p[1] <= q[1]

parseDockerCommand(naturalLanguage) == Cascade(Trim(ToLowerCase(naturalLanguage)))[2].cmd

(***************************************************************************)
(* The server.                                                             *)
(*                                                                         *)
(* A request is handled in one step: the handler runs from its first line  *)
(* to its return.  What the external programs answer during the request is *)
(* drawn with the request as `ext`: which of the invocations fail (by      *)
(* their position in the order the request issues them), the stdout and    *)
(* stderr of those that succeed, the message of the error exec raises, and *)
(* what the listing and inspect commands print.  An option that was left   *)
(* out of a request, null and undefined all read as the empty string,      *)
(* which is how every test of the source reads them (!x, x ? a : b,        *)
(* x || d).                                                                *)
(***************************************************************************)
VARIABLES
  projects,      \* DockerComposeManager.projects: project name -> stored plan
  currentHost,   \* RemoteDockerManager.currentHost
  DOCKER_HOST,   \* process.env.DOCKER_HOST
  last,          \* the request being answered: what was asked, what was run, the answer
  prevError      \* the answer before this one was an error

vars == <<projects, currentHost, DOCKER_HOST, last, prevError>>

Idle == [phase |-> "idle"]

\* ---- the external programs ------------------------------------------------
NewRun(ext) == [ext |-> ext, cmds |-> <<>>]

\* execAsync(command): one more command line handed to the shell
Call(run, command) == [run EXCEPT !.cmds = Append(@, command)]

\* the invocation just issued failed (non-zero exit, or could not start)
LastFailed(run) == Len(run.cmds) \in run.ext.fails

\* executeDockerCommand: `Docker command failed: ${error.message}`
ExecError(run) == "Docker command failed: " \o run.ext.message

\* ---- what a handler body ends in --------------------------------------------
Return(text, run) == [kind |-> "return", text |-> text, cmds |-> run.cmds]
Throw(message, run) == [kind |-> "throw", text |-> message, cmds |-> run.cmds]

\* the catch block of a handler: { content: [{type, text}], isError: true }
Caught(prefix, body) ==
  [kind |-> "result",
   content |-> <<[type |-> "text", text |-> prefix \o body.text]>>,
   isError |-> TRUE,
   cmds |-> body.cmds]

\* a handler whose catch block lets the error go on to its caller
TryCatchRethrows(prefix, body) ==
  IF body.kind = "throw" THEN body
  ELSE [kind |-> "result",
        content |-> <<[type |-> "text", text |-> body.text]>>,
        isError |-> FALSE,
        cmds |-> body.cmds]

\* try { ... return { content: [{type, text}] } } catch (error) { ... }
TryCatch(prefix, body) ==
  IF body.kind = "throw" THEN Caught(prefix, body)
  ELSE [kind |-> "result",
        content |-> <<[type |-> "text", text |-> body.text]>>,
        isError |-> FALSE,
        cmds |-> body.cmds]

\* a relay that keeps stdout and leaves stderr out
RelayStdoutOnly(ext, label) == ext.stdout

\* `${result.stdout}${result.stderr ? `\n<label>:\n${result.stderr}` : ""}`
Relay(ext, label) ==
  ext.stdout \o (IF Len(ext.stderr) > 0 THEN "\n" \o label \o ":\n" \o ext.stderr
                 ELSE "")

\* a handler that builds one command line, runs it and relays its output
Built(command) == [ok |-> TRUE, v |-> command]
Refused(message) == [ok |-> FALSE, v |-> message]

RunOne(built, ext, heading) ==
  IF ~built.ok THEN Throw(built.v, NewRun(ext))
  ELSE LET run == Call(NewRun(ext), built.v)
       IN IF LastFailed(run) THEN Throw(ExecError(run), run)
          ELSE Return(heading \o Relay(ext, "Warnings"), run)

\* ---- execute_docker_command ---------------------------------------------------
\* from the call of executeDockerCommand on
Executed(dockerCommand, ext, run) ==
  IF LastFailed(run) THEN Throw(ExecError(run), run)
  ELSE Return("Executed: " \o dockerCommand \o "\n\nOutput:\n" \o Relay(ext, "Errors"), run)

ExecuteDockerCommandHandler(req, ext) ==
  LET body ==
        Executed(parseDockerCommand(req.command), ext,
                 Call(NewRun(ext), parseDockerCommand(req.command)))
  IN TryCatch("Error executing Docker command: ", body)

\* ---- manage_containers ----------------------------------------------------------
\* manage_containers with the stop case building its command line unchecked
ManageContainersCommandUnchecked(req) ==
  CASE req.action = "list" ->
         Built(IF req.all THEN "docker ps -a" ELSE "docker ps")
    [] req.action = "stop" -> Built("docker stop " \o req.container)
    [] req.action \in {"start", "remove", "restart"} ->
         IF Len(req.container) = 0
         THEN Refused("Container name or ID is required for " \o req.action \o " action")
         ELSE Built("docker " \o (IF req.action = "remove" THEN "rm" ELSE req.action)
                    \o " " \o req.container)

ManageContainersCommand(req) ==
  CASE req.action = "list" ->
         Built(IF req.all THEN "docker ps -a" ELSE "docker ps")
    [] req.action = "start" ->
         IF Len(req.container) = 0
         THEN Refused("Container name or ID is required for start action")
         ELSE Built("docker start " \o req.container)
    [] req.action = "stop" ->
         IF Len(req.container) = 0
         THEN Refused("Container name or ID is required for stop action")
         ELSE Built("docker stop " \o req.container)
    [] req.action = "remove" ->
         IF Len(req.container) = 0
         THEN Refused("Container name or ID is required for remove action")
         ELSE Built("docker rm " \o req.container)
    [] req.action = "restart" ->
         IF Len(req.container) = 0
         THEN Refused("Container name or ID is required for restart action")
         ELSE Built("docker restart " \o req.container)

ManageContainersHandler(req, ext) ==
  TryCatch("Error managing containers: ",
           RunOne(ManageContainersCommand(req), ext,
                  "Container " \o req.action \o " completed:\n\n"))

\* ---- manage_images ---------------------------------------------------------------
ManageImagesCommand(req) ==
  CASE req.action = "list" -> Built("docker images")
    [] req.action = "pull" ->
         IF Len(req.image) = 0 THEN Refused("Image name is required for pull action")
         ELSE Built(IF Len(req.tag) > 0
                    THEN "docker pull " \o req.image \o ":" \o req.tag
                    ELSE "docker pull " \o req.image)
    [] req.action = "remove" ->
         IF Len(req.image) = 0
         THEN Refused("Image name or ID is required for remove action")
         ELSE Built("docker rmi " \o req.image)
    [] req.action = "build" ->
         IF Len(req.image) = 0 THEN Refused("Image name is required for build action")
         ELSE LET buildTag == IF Len(req.tag) > 0 THEN req.image \o ":" \o req.tag
                              ELSE req.image
                  context == IF Len(req.dockerfile) > 0 THEN req.dockerfile ELSE "."
              IN Built("docker build -t " \o buildTag \o " " \o context)

ManageImagesHandler(req, ext) ==
  TryCatch("Error managing images: ",
           RunOne(ManageImagesCommand(req), ext,
                  "Image " \o req.action \o " completed:\n\n"))

\* ---- docker_info -------------------------------------------------------------------
DockerInfoCommand(req) ==
  CASE req.type = "info" -> Built("docker system info")
    [] req.type = "version" -> Built("docker --version && docker-compose --version")
    [] req.type = "stats" -> Built("docker stats --no-stream")
    [] req.type = "disk_usage" -> Built("docker system df")

DockerInfoHandler(req, ext) ==
  TryCatch("Error getting Docker information: ",
           RunOne(DockerInfoCommand(req), ext, "Docker " \o req.type \o ":\n\n"))

\* ---- manage_volumes ----------------------------------------------------------------
ManageVolumesCommand(req) ==
  CASE req.action = "list" -> Built("docker volume ls")
    [] req.action = "create" ->
         IF Len(req.volume) = 0 THEN Refused("Volume name is required for create action")
         ELSE Built("docker volume create"
                    \o (IF Len(req.driver) > 0 THEN " --driver " \o req.driver ELSE "")
                    \o " " \o req.volume)
    [] req.action = "remove" ->
         IF Len(req.volume) = 0 THEN Refused("Volume name is required for remove action")
         ELSE Built("docker volume rm " \o req.volume)
    [] req.action = "inspect" ->
         IF Len(req.volume) = 0 THEN Refused("Volume name is required for inspect action")
         ELSE Built("docker volume inspect " \o req.volume)
    [] req.action = "prune" -> Built("docker volume prune -f")

ManageVolumesHandler(req, ext) ==
  TryCatch("Error managing volumes: ",
           RunOne(ManageVolumesCommand(req), ext,
                  "Volume " \o req.action \o " completed:\n\n"))

\* ---- manage_networks ---------------------------------------------------------------
ManageNetworksCommand(req) ==
  CASE req.action = "list" -> Built("docker network ls")
    [] req.action = "create" ->
         IF Len(req.network) = 0 THEN Refused("Network name is required for create action")
         ELSE Built("docker network create"
                    \o (IF Len(req.driver) > 0 THEN " --driver " \o req.driver ELSE "")
                    \o " " \o req.network)
    [] req.action = "remove" ->
         IF Len(req.network) = 0 THEN Refused("Network name is required for remove action")
         ELSE Built("docker network rm " \o req.network)
    [] req.action = "inspect" ->
         IF Len(req.network) = 0 THEN Refused("Network name is required for inspect action")
         ELSE Built("docker network inspect " \o req.network)
    [] req.action = "connect" ->
         IF Len(req.network) = 0 \/ Len(req.container) = 0
         THEN Refused("Network and container names are required for connect action")
         ELSE Built("docker network connect " \o req.network \o " " \o req.container)
    [] req.action = "disconnect" ->
         IF Len(req.network) = 0 \/ Len(req.container) = 0
         THEN Refused("Network and container names are required for disconnect action")
         ELSE Built("docker network disconnect " \o req.network \o " " \o req.container)
    [] req.action = "prune" -> Built("docker network prune -f")

ManageNetworksHandler(req, ext) ==
  TryCatch("Error managing networks: ",
           RunOne(ManageNetworksCommand(req), ext,
                  "Network " \o req.action \o " completed:\n\n"))

\* ---- docker_registry ---------------------------------------------------------------
TagSuffix(req) == IF Len(req.tag) > 0 THEN ":" \o req.tag ELSE ""

DockerRegistryCommand(req) ==
  CASE req.action = "search" ->
         IF Len(req.query) = 0 THEN Refused("Search query is required")
         ELSE Built("docker search " \o req.query)
    [] req.action = "login" ->
         Built("docker login"
               \o (IF Len(req.registry) > 0 THEN " " \o req.registry ELSE "")
               \o (IF Len(req.username) > 0 /\ Len(req.password) > 0
                   THEN " -u " \o req.username \o " -p " \o req.password
                   ELSE ""))
    [] req.action = "logout" ->
         Built("docker logout"
               \o (IF Len(req.registry) > 0 THEN " " \o req.registry ELSE ""))
    [] req.action = "push" ->
         IF Len(req.image) = 0 THEN Refused("Image name is required for push")
         ELSE Built("docker push " \o req.image \o TagSuffix(req))
    [] req.action = "pull" ->
         IF Len(req.image) = 0 THEN Refused("Image name is required for pull")
         ELSE Built("docker pull " \o req.image \o TagSuffix(req))
    [] req.action = "tag" ->
         IF Len(req.image) = 0 \/ Len(req.newTag) = 0
         THEN Refused("Image name and new tag are required for tag action")
         ELSE Built("docker tag " \o req.image \o TagSuffix(req) \o " " \o req.newTag)

DockerRegistryHandler(req, ext) ==
  TryCatch("Error with registry operation: ",
           RunOne(DockerRegistryCommand(req), ext,
                  "Registry " \o req.action \o " completed:\n\n"))

\* Number.prototype.toString of a non-negative integer
RECURSIVE DecStr(_)
DecStr(n) ==
  LET d == <<"0", "1", "2", "3", "4", "5", "6", "7", "8", "9">>[(n % 10) + 1]
  IN IF n < 10 THEN d ELSE DecStr(n \div 10) \o d

\* ---- docker_monitoring -------------------------------------------------------------
DockerMonitoringCommand(req) ==
  CASE req.action = "logs" ->
         IF Len(req.container) = 0 THEN Refused("Container name is required for logs")
         ELSE Built("docker logs"
                    \o (IF req.follow THEN " -f" ELSE "")
                    \o (IF req.tail # 0 THEN " --tail " \o DecStr(req.tail) ELSE "")
                    \o (IF Len(req.since) > 0 THEN " --since " \o req.since ELSE "")
                    \o (IF Len(req.until) > 0 THEN " --until " \o req.until ELSE "")
                    \o " " \o req.container)
    [] req.action = "inspect" ->
         IF Len(req.container) = 0 THEN Refused("Container name is required for inspect")
         ELSE Built("docker inspect " \o req.container)
    [] req.action = "exec" ->
         IF Len(req.container) = 0 THEN Refused("Container name is required for exec")
         ELSE LET execCommand == IF Len(req.command) > 0 THEN req.command ELSE "bash"
              IN Built("docker exec -it " \o req.container \o " " \o execCommand)
    [] req.action = "top" ->
         IF Len(req.container) = 0 THEN Refused("Container name is required for top")
         ELSE Built("docker top " \o req.container)
    [] req.action = "port" ->
         IF Len(req.container) = 0 THEN Refused("Container name is required for port")
         ELSE Built("docker port " \o req.container)
    [] req.action = "stats" ->
         Built(IF Len(req.container) > 0
               THEN "docker stats --no-stream " \o req.container
               ELSE "docker stats --no-stream")
    [] req.action = "events" ->
         Built("docker events --since 1h"
               \o (IF Len(req.container) > 0 THEN " --filter container=" \o req.container
                   ELSE ""))
    [] req.action = "diff" ->
         IF Len(req.container) = 0 THEN Refused("Container name is required for diff")
         ELSE Built("docker diff " \o req.container)

DockerMonitoringHandler(req, ext) ==
  TryCatch("Error with monitoring operation: ",
           RunOne(DockerMonitoringCommand(req), ext,
                  "Monitoring " \o req.action \o " completed:\n\n"))

\* ---- docker_compose ----------------------------------------------------------------
DockerComposeCommand(req) ==
  LET serviceArg == IF Len(req.service) > 0 THEN " " \o req.service ELSE ""
  IN CASE req.action = "up" ->
            Built("docker-compose up" \o (IF req.detach THEN " -d" ELSE "")
                  \o (IF req.build THEN " --build" ELSE "") \o serviceArg)
       [] req.action = "down" -> Built("docker-compose down" \o serviceArg)
       [] req.action = "logs" -> Built("docker-compose logs" \o serviceArg)
       [] req.action = "ps" -> Built("docker-compose ps")
       [] req.action = "restart" -> Built("docker-compose restart" \o serviceArg)
       [] req.action = "build" -> Built("docker-compose build" \o serviceArg)

DockerComposeHandler(req, ext) ==
  TryCatch("Error with Docker Compose: ",
           RunOne(DockerComposeCommand(req), ext,
                  "Docker Compose " \o req.action \o " completed:\n\n"))

\* ---- ProjectManager ----------------------------------------------------------------
getProjectLabel(projectName) == "mcp-server-docker.project=" \o projectName

\* GetSubstitution of String.prototype.replace for an expression with one
\* capture group that spans the whole match: $$ is a dollar sign, $& and $1
\* (also written $01) the matched text, $` what precedes the match and $' what
\* follows it; any other text stands for itself
RECURSIVE Substitution(_, _, _, _)
Substitution(template, matched, preceding, following) ==
  IF Len(template) = 0 THEN ""
  ELSE IF At(template, 1) # "$" \/ Len(template) = 1
  THEN At(template, 1)
       \o Substitution(SubSeq(template, 2, Len(template)), matched, preceding, following)
  ELSE LET c == At(template, 2)
           rest2 == SubSeq(template, 3, Len(template))
           rest3 == SubSeq(template, 4, Len(template))
       IN CASE c = "$" -> "$" \o Substitution(rest2, matched, preceding, following)
            [] c = "&" -> matched \o Substitution(rest2, matched, preceding, following)
            [] HasAt(template, 2, "\\u0060") ->
                 preceding \o Substitution(SubSeq(template, 2 + Len("\\u0060"),
                                                  Len(template)),
                                           matched, preceding, following)
            [] c = "'" -> following \o Substitution(rest2, matched, preceding, following)
            [] c = "1" -> matched \o Substitution(rest2, matched, preceding, following)
            [] c = "0" /\ Len(template) > 2 /\ At(template, 3) = "1" ->
                 matched \o Substitution(rest3, matched, preceding, following)
            [] OTHER -> "$" \o Substitution(SubSeq(template, 2, Len(template)),
                                            matched, preceding, following)

\* command.replace(re, `$1 --label "${label}"`): the first match is replaced by
\* what the template, with the label already written into it, stands for
AddLabelAfter(command, re, label) ==
  LET m == Match(command, re)
  IN IF ~m.ok THEN command
     ELSE SubSeq(command, 1, m.b - 1)
          \o Substitution("$1 --label \"" \o label \o "\"",
                          SubSeq(command, m.b, m.e - 1),
                          SubSeq(command, 1, m.b - 1),
                          SubSeq(command, m.e, Len(command)))
          \o SubSeq(command, m.e, Len(command))

\* the label goes in after /(docker (?:run|create))/, docker network create or
\* docker volume create
addProjectLabel(command, projectName) ==
  LET label == getProjectLabel(projectName)
  IN IF Includes(command, "docker run") \/ Includes(command, "docker create")
     THEN AddLabelAfter(command, <<L("docker "), Words(<<"run", "create">>)>>, label)
     ELSE IF Includes(command, "docker network create")
     THEN AddLabelAfter(command, <<L("docker network create")>>, label)
     ELSE IF Includes(command, "docker volume create")
     THEN AddLabelAfter(command, <<L("docker volume create")>>, label)
     ELSE command

\* ---- create_container ------------------------------------------------------------
\* text[k] for each k, each behind the same option
RECURSIVE Options(_, _)
Options(flag, values) ==
  IF Len(values) = 0 THEN ""
  ELSE flag \o Head(values) \o Options(flag, Tail(values))

\* ` -e ${key}=${value}` for each entry
RECURSIVE EnvOptions(_)
EnvOptions(entries) ==
  IF Len(entries) = 0 THEN ""
  ELSE " -e " \o Head(entries)[1] \o "=" \o Head(entries)[2] \o EnvOptions(Tail(entries))

\* ` --label "${key}=${value}"` for each entry
RECURSIVE LabelOptions(_)
LabelOptions(entries) ==
  IF Len(entries) = 0 THEN ""
  ELSE " --label \"" \o Head(entries)[1] \o "=" \o Head(entries)[2] \o "\""
       \o LabelOptions(Tail(entries))

Option(flag, value) == IF Len(value) > 0 THEN flag \o value ELSE ""

CreateContainerCommand(req) ==
  LET flags ==
        (IF req.detached /\ ~req.interactive THEN " -d" ELSE "")
        \o (IF req.interactive THEN " -it" ELSE "")
        \o Option(" --name ", req.name)
      health ==
        IF req.healthCheck.given
        THEN " --health-cmd \"" \o req.healthCheck.test \o "\""
             \o Option(" --health-interval ", req.healthCheck.interval)
             \o Option(" --health-timeout ", req.healthCheck.timeout)
             \o (IF req.healthCheck.retries # 0
                 THEN " --health-retries " \o DecStr(req.healthCheck.retries) ELSE "")
        ELSE ""
      resources ==
        IF req.resources.given
        THEN Option(" --memory ", req.resources.memory)
             \o Option(" --cpus ", req.resources.cpus)
             \o Option(" --memory-swap ", req.resources.memorySwap)
        ELSE ""
      security ==
        IF req.security.given
        THEN Option(" --user ", req.security.user)
             \o (IF req.security.readOnly THEN " --read-only" ELSE "")
             \o Options(" --tmpfs ", req.security.tmpfs)
        ELSE ""
      dockerCommand ==
        "docker run" \o flags
        \o Options(" -p ", req.ports)
        \o Options(" -v ", req.volumes)
        \o EnvOptions(req.environment)
        \o Option(" --network ", req.network)
        \o Option(" -w ", req.workdir)
        \o Option(" --restart ", req.restart)
        \o Option(" --hostname ", req.hostname)
        \o Option(" --domainname ", req.domainname)
        \o health \o resources \o security
        \o LabelOptions(req.labels)
        \o " " \o req.image
        \o Option(" ", req.command)
  IN IF Len(req.projectName) > 0 THEN addProjectLabel(dockerCommand, req.projectName)
     ELSE dockerCommand

CreateContainerHandler(req, ext) ==
  LET body ==
        LET dockerCommand == CreateContainerCommand(req)
            run == Call(NewRun(ext), dockerCommand)
        IN IF LastFailed(run) THEN Throw(ExecError(run), run)
           ELSE Return("Container created successfully:\n\nCommand: " \o dockerCommand
                       \o "\n\nOutput:\n" \o Relay(ext, "Warnings"), run)
  IN TryCatch("Error creating container: ", body)

\* Array.prototype.join
RECURSIVE Join(_, _)
Join(texts, sep) ==
  IF Len(texts) = 0 THEN ""
  ELSE IF Len(texts) = 1 THEN texts[1]
  ELSE texts[1] \o sep \o Join(Tail(texts), sep)

\* String.prototype.split on one character
RECURSIVE Split(_, _)
Split(s, ch) ==
  IF \A k \in 1..Len(s) : At(s, k) # ch THEN <<s>>
  ELSE LET k == CHOOSE j \in 1..Len(s) :
                  At(s, j) = ch /\ \A h \in 1..(j - 1) : At(s, h) # ch
       IN <<SubSeq(s, 1, k - 1)>> \o Split(SubSeq(s, k + 1, Len(s)), ch)

\* ProjectManager.getProjectResources: the three listings are issued together;
\* one that fails, or prints what JSON.parse rejects, reads as an empty list.
\* The resources are the objects docker prints (ID, Names, State, Name).
ListingCommand(what, label) ==
  "docker " \o what \o " --filter \"label=" \o label \o "\" --format \"{{json .}}\""

getProjectResources(run, projectName) ==
  LET label == getProjectLabel(projectName)
      k == Len(run.cmds)
      run3 == Call(Call(Call(run, ListingCommand("ps -a", label)),
                        ListingCommand("network ls", label)),
                   ListingCommand("volume ls", label))
      fails == run.ext.fails
  IN [run |-> run3,
      name |-> projectName,
      containers |-> IF (k + 1) \in fails THEN <<>> ELSE run.ext.containers,
      networks |-> IF (k + 2) \in fails THEN <<>> ELSE run.ext.networks,
      volumes |-> IF (k + 3) \in fails THEN <<>> ELSE run.ext.volumes]

\* ---- DockerComposeManager -----------------------------------------------------------
\* /port\s+(\d+)/
PortNumberRe == <<L("port"), Ws, Cap(1, <<Plus(Digits)>>)>>

WordpressService ==
  [name |-> "wordpress", image |-> "wordpress:latest", ports |-> <<"9000:80">>,
   environment |-> << <<"WORDPRESS_DB_HOST", "mysql">>,
                      <<"WORDPRESS_DB_USER", "wordpress">>,
                      <<"WORDPRESS_DB_PASSWORD", "wordpress">>,
                      <<"WORDPRESS_DB_NAME", "wordpress">> >>,
   volumes |-> <<>>, depends_on |-> <<"mysql">>]

MysqlService ==
  [name |-> "mysql", image |-> "mysql:8.0", ports |-> <<>>,
   environment |-> << <<"MYSQL_DATABASE", "wordpress">>,
                      <<"MYSQL_USER", "wordpress">>,
                      <<"MYSQL_PASSWORD", "wordpress">>,
                      <<"MYSQL_ROOT_PASSWORD", "rootpassword">> >>,
   volumes |-> <<"mysql-data:/var/lib/mysql">>, depends_on |-> <<>>]

NginxService(port) ==
  [name |-> "nginx", image |-> "nginx:latest", ports |-> <<port \o ":80">>,
   environment |-> <<>>, volumes |-> <<>>, depends_on |-> <<>>]

RedisService ==
  [name |-> "redis", image |-> "redis:alpine", ports |-> <<"6379:6379">>,
   environment |-> <<>>, volumes |-> <<>>, depends_on |-> <<>>]

PostgresService ==
  [name |-> "postgres", image |-> "postgres:15", ports |-> <<>>,
   environment |-> << <<"POSTGRES_DB", "myapp">>,
                      <<"POSTGRES_USER", "user">>,
                      <<"POSTGRES_PASSWORD", "password">> >>,
   volumes |-> <<"postgres-data:/var/lib/postgresql/data">>, depends_on |-> <<>>]

\* the services and volumes in the order their keys are inserted
parseNaturalLanguage(description, projectName) ==
  LET wp == Includes(description, "wordpress") \/ Includes(description, "wp")
      pm == Match(description, PortNumberRe)
      port == IF pm.ok THEN GroupOr(pm, 1, "80") ELSE "80"
  IN [name |-> projectName,
      services |->
        (IF wp THEN <<WordpressService, MysqlService>> ELSE <<>>)
        \o (IF Includes(description, "nginx") THEN <<NginxService(port)>> ELSE <<>>)
        \o (IF Includes(description, "redis") THEN <<RedisService>> ELSE <<>>)
        \o (IF Includes(description, "postgres") THEN <<PostgresService>> ELSE <<>>),
      volumes |->
        (IF wp THEN <<"mysql-data">> ELSE <<>>)
        \o (IF Includes(description, "postgres") THEN <<"postgres-data">> ELSE <<>>)]

\* the elements of a sequence that satisfy Test, in order
SelectIdx(n, keep) ==
  LET RECURSIVE From(_)
      From(k) == IF k > n THEN <<>>
                 ELSE (IF k \in keep THEN <<k>> ELSE <<>>) \o From(k + 1)
  IN From(1)

PlanActions(project, currentResources) ==
  LET svc == project.services
      need == {k \in 1..Len(svc) :
                 ~\E c \in 1..Len(currentResources.containers) :
                    Includes(currentResources.containers[c].Names, svc[k].name)}
      containerActions ==
        [j \in 1..Cardinality(need) |->
           LET k == SelectIdx(Len(svc), need)[j]
           IN "CREATE container " \o project.name \o "-" \o svc[k].name
              \o " from " \o svc[k].image]
      vols == project.volumes
      needVol == {k \in 1..Len(vols) :
                    ~\E v \in 1..Len(currentResources.volumes) :
                       currentResources.volumes[v].Name = project.name \o "-" \o vols[k]}
      volumeActions ==
        [j \in 1..Cardinality(needVol) |->
           "CREATE volume " \o project.name \o "-"
           \o vols[SelectIdx(Len(vols), needVol)[j]]]
      networkName == project.name \o "-network"
      networkActions ==
        IF Len(svc) > 1
           /\ ~\E n \in 1..Len(currentResources.networks) :
                 currentResources.networks[n].Name = networkName
        THEN <<"CREATE network " \o networkName>>
        ELSE <<>>
  IN containerActions \o volumeActions \o networkActions

generatePlan(project, currentResources) ==
  LET actions == PlanActions(project, currentResources)
  IN IF Len(actions) = 0 THEN "No changes to make; project is up-to-date."
     ELSE "## Plan\n\nI plan to take the following actions:\n\n"
          \o Join([k \in 1..Len(actions) |-> DecStr(k) \o ". " \o actions[k]], "\n")
          \o "\n\nRespond \\u0060apply\\u0060 to apply this plan. Otherwise, provide feedback and I will present you with an updated plan."

\* ` -v ...` of one volume of a service
VolumeOption(projectName, volume) ==
  IF Includes(volume, ":")
  THEN LET parts == Split(volume, ":")
       IN " -v " \o projectName \o "-" \o parts[1] \o ":" \o parts[2]
  ELSE " -v " \o volume

RECURSIVE VolumeOptions(_, _)
VolumeOptions(projectName, volumes) ==
  IF Len(volumes) = 0 THEN ""
  ELSE VolumeOption(projectName, Head(volumes)) \o VolumeOptions(projectName, Tail(volumes))

\* the docker run line of one service of a plan
ServiceRunCommand(projectName, project, config) ==
  addProjectLabel(
    "docker run -d --name " \o projectName \o "-" \o config.name
    \o Options(" -p ", config.ports)
    \o EnvOptions(config.environment)
    \o VolumeOptions(projectName, config.volumes)
    \o (IF Len(project.services) > 1 THEN " --network " \o projectName \o "-network"
        ELSE "")
    \o " " \o config.image,
    projectName)

\* an apply that starts the containers before it creates what they use
ApplyStepsContainersFirst(projectName, project) ==
  [k \in 1..Len(project.services) |->
     [cmd |-> ServiceRunCommand(projectName, project, project.services[k]),
      lines |-> <<"\\u2705 Created and started container " \o projectName
                  \o "-" \o project.services[k].name>>]]
  \o [k \in 1..Len(project.volumes) |->
        [cmd |-> addProjectLabel("docker volume create " \o projectName \o "-"
                                 \o project.volumes[k], projectName),
         lines |-> <<"\\u2705 Created volume " \o projectName \o "-"
                     \o project.volumes[k]>>]]
  \o (IF Len(project.services) > 1
      THEN <<[cmd |-> addProjectLabel("docker network create " \o projectName
                                      \o "-network", projectName),
              lines |-> <<"\\u2705 Created network " \o projectName \o "-network">>]>>
      ELSE <<>>)

\* what applyPlan runs, in order, each with the lines it pushes to results
ApplySteps(projectName, project) ==
  (IF Len(project.services) > 1
   THEN <<[cmd |-> addProjectLabel("docker network create " \o projectName
                                   \o "-network", projectName),
           lines |-> <<"\\u2705 Created network " \o projectName \o "-network">>]>>
   ELSE <<>>)
  \o [k \in 1..Len(project.volumes) |->
        [cmd |-> addProjectLabel("docker volume create " \o projectName \o "-"
                                 \o project.volumes[k], projectName),
         lines |-> <<"\\u2705 Created volume " \o projectName \o "-"
                     \o project.volumes[k]>>]]
  \o [k \in 1..Len(project.services) |->
        [cmd |-> ServiceRunCommand(projectName, project, project.services[k]),
         lines |-> <<"\\u2705 Created and started container " \o projectName
                     \o "-" \o project.services[k].name>>]]

\* one command after the other, up to the first that fails
RECURSIVE RunSteps(_, _, _)
\* a loop that goes on to the next command after one has failed
RECURSIVE RunStepsThrough(_, _, _)
RunStepsThrough(run, steps, results) ==
  IF Len(steps) = 0 THEN [run |-> run, failed |-> FALSE, results |-> results]
  ELSE LET run1 == Call(run, Head(steps).cmd)
           rest == RunStepsThrough(run1, Tail(steps), results \o Head(steps).lines)
       IN [rest EXCEPT !.failed = @ \/ LastFailed(run1)]

RunSteps(run, steps, results) ==
  IF Len(steps) = 0 THEN [run |-> run, failed |-> FALSE, results |-> results]
  ELSE LET run1 == Call(run, Head(steps).cmd)
       IN IF LastFailed(run1) THEN [run |-> run1, failed |-> TRUE, results |-> results]
          ELSE RunSteps(run1, Tail(steps), results \o Head(steps).lines)

\* a lookup that falls back on whatever plan is stored when the project has none
getProjectOrAny(stored, projectName) ==
  IF projectName \in DOMAIN stored THEN <<stored[projectName]>>
  ELSE IF DOMAIN stored = {} THEN <<>>
  ELSE <<stored[CHOOSE n \in DOMAIN stored : TRUE]>>

\* this.projects.get(projectName): the stored plan, if there is one
getProject(stored, projectName) ==
  IF projectName \in DOMAIN stored THEN <<stored[projectName]>> ELSE <<>>

applyPlan(run, projectName, stored) ==
  IF Len(getProject(stored, projectName)) = 0
  THEN Throw("No plan found for project " \o projectName, run)
  ELSE LET project == getProject(stored, projectName)[1]
           done == RunSteps(run, ApplySteps(projectName, project), <<>>)
       IN IF done.failed
          THEN Throw("Failed to apply plan: " \o ExecError(done.run), done.run)
          ELSE Return("## Apply Complete\n\n" \o Join(done.results, "\n")
                      \o "\n\nProject " \o projectName
                      \o " has been successfully deployed!", done.run)

\* destroyProject: each resource in its own try; a failure is a line of the report
RECURSIVE RemoveEach(_, _, _, _)
RemoveEach(run, items, kind, results) ==
  IF Len(items) = 0 THEN [run |-> run, results |-> results]
  ELSE LET it == Head(items)
           run1 == Call(run, "docker " \o kind \o " rm " \o it.Name)
       IN RemoveEach(run1, Tail(items), kind,
                     Append(results,
                            IF LastFailed(run1)
                            THEN "\\u274C Failed to remove " \o kind \o " " \o it.Name
                            ELSE "\\u2705 Removed " \o kind \o " " \o it.Name))

RECURSIVE RemoveContainers(_, _, _)
RemoveContainers(run, items, results) ==
  IF Len(items) = 0 THEN [run |-> run, results |-> results]
  ELSE LET it == Head(items)
           run1 == Call(run, "docker stop " \o it.ID)
           run2 == IF LastFailed(run1) THEN run1 ELSE Call(run1, "docker rm " \o it.ID)
       IN RemoveContainers(run2, Tail(items),
                           Append(results,
                                  IF LastFailed(run2)
                                  THEN "\\u274C Failed to remove container " \o it.Names
                                  ELSE "\\u2705 Removed container " \o it.Names))

destroyProject(run, projectName) ==
  LET resources == getProjectResources(run, projectName)
      c == RemoveContainers(resources.run, resources.containers, <<>>)
      v == RemoveEach(c.run, resources.volumes, "volume", c.results)
      n == RemoveEach(v.run, resources.networks, "network", v.results)
  IN Return("## Destroy Complete\n\n" \o Join(n.results, "\n") \o "\n\nProject "
            \o projectName \o " has been destroyed.", n.run)

\* a store with room for one plan: the new plan takes the place of all others
setProjectAlone(stored, projectName, project) ==
  [n \in {projectName} |-> project]

setProject(stored, projectName, project) ==
  [n \in DOMAIN stored \cup {projectName} |->
     IF n = projectName THEN project ELSE stored[n]]

\* ---- docker_compose_advanced ---------------------------------------------------
\* `${xs.map(...).join('\n') || 'None'}`
JoinOrNone(lines) == IF Len(Join(lines, "\n")) = 0 THEN "None" ELSE Join(lines, "\n")

StatusText(projectName, resources) ==
  LET cs == resources.containers
      running == Cardinality({k \in 1..Len(cs) : cs[k].State = "running"})
  IN "## Project Status: " \o projectName
     \o "\n\n**Containers:** " \o DecStr(Len(cs)) \o " (" \o DecStr(running)
     \o " running)\n**Networks:** " \o DecStr(Len(resources.networks))
     \o "\n**Volumes:** " \o DecStr(Len(resources.volumes))
     \o "\n\n### Containers:\n"
     \o JoinOrNone([k \in 1..Len(cs) |-> "- " \o cs[k].Names \o ": " \o cs[k].State])
     \o "\n\n### Networks:\n"
     \o JoinOrNone([k \in 1..Len(resources.networks) |->
                      "- " \o resources.networks[k].Name])
     \o "\n\n### Volumes:\n"
     \o JoinOrNone([k \in 1..Len(resources.volumes) |->
                      "- " \o resources.volumes[k].Name])

PlanText(projectName, project, resources) ==
  "## Docker Compose Manager - Project: " \o projectName \o "\n\n"
  \o generatePlan(project, resources)
  \o "\n\n### Resources Currently Present:\n**Containers:** "
  \o DecStr(Len(resources.containers))
  \o "\n**Networks:** " \o DecStr(Len(resources.networks))
  \o "\n**Volumes:** " \o DecStr(Len(resources.volumes))

\* the body of the handler, and the plans it leaves stored
DockerComposeAdvancedBody(req, ext, stored) ==
  CASE req.action = "plan" ->
         IF Len(req.containers) = 0
         THEN [body |-> Throw("Container description is required for planning",
                              NewRun(ext)),
               projects |-> stored]
         ELSE LET project == parseNaturalLanguage(req.containers, req.projectName)
                  resources == getProjectResources(NewRun(ext), req.projectName)
              IN [body |-> Return(PlanText(req.projectName, project, resources),
                                  resources.run),
                  projects |-> setProject(stored, req.projectName, project)]
    [] req.action = "apply" ->
         [body |-> applyPlan(NewRun(ext), req.projectName, stored), projects |-> stored]
    [] req.action = "destroy" ->
         [body |-> destroyProject(NewRun(ext), req.projectName), projects |-> stored]
    [] req.action = "status" ->
         LET resources == getProjectResources(NewRun(ext), req.projectName)
         IN [body |-> Return(StatusText(req.projectName, resources), resources.run),
             projects |-> stored]

DockerComposeAdvancedHandler(req, ext, stored) ==
  LET done == DockerComposeAdvancedBody(req, ext, stored)
  IN [result |-> TryCatch("Error with Docker Compose operation: ", done.body),
      projects |-> done.projects]

\* ---- RemoteDockerManager -------------------------------------------------------
\* the host override: RemoteDockerManager.currentHost and process.env.DOCKER_HOST
setDockerHost(host) == [currentHost |-> host, DOCKER_HOST |-> host]

\* this.currentHost || process.env.DOCKER_HOST || null
getDockerHost(hosts) ==
  IF Len(hosts.currentHost) > 0 THEN hosts.currentHost ELSE hosts.DOCKER_HOST

\* `docker version` ran without error
testConnection(run) ==
  LET run1 == Call(run, "docker version")
  IN [run |-> run1, connected |-> ~LastFailed(run1)]

HostOrLocal(hosts) ==
  IF Len(getDockerHost(hosts)) > 0 THEN getDockerHost(hosts) ELSE "local"

ConnectedOrFailed(connected) ==
  IF connected THEN "\\u2705 Connected" ELSE "\\u274C Failed"

getConnectionInfo(run, hosts) ==
  LET t == testConnection(run)
  IN [run |-> t.run,
      text |-> "Docker Host: " \o HostOrLocal(hosts) \o "\nConnection: "
               \o ConnectedOrFailed(t.connected)]

\* ---- docker_remote_connection --------------------------------------------------
\* ssh://host with a user and no user in the host becomes ssh://user@host
ConnectHost(req) ==
  IF StartsWith(req.host, "ssh://")
  THEN LET sshHost == SubSeq(req.host, 7, Len(req.host))
       IN IF Len(req.user) > 0 /\ ~Includes(sshHost, "@")
          THEN "ssh://" \o req.user \o "@" \o sshHost
          ELSE req.host
  ELSE req.host

\* a connect that puts the previous override back when its test fails
DockerRemoteConnectionBodyRestoring(req, ext, hosts) ==
  CASE req.action = "connect" ->
         IF Len(req.host) = 0
         THEN [body |-> Throw("Host is required for connection", NewRun(ext)),
               hosts |-> hosts]
         ELSE LET host == ConnectHost(req)
                  t == testConnection(NewRun(ext))
              IN IF ~t.connected
                 THEN [body |-> Throw("Failed to connect to remote Docker host", t.run),
                       hosts |-> hosts]
                 ELSE [body |-> Return("\\u2705 Successfully connected to Docker host: "
                                       \o host, t.run),
                       hosts |-> setDockerHost(host)]
    [] req.action = "disconnect" ->
         [body |-> Return("\\u2705 Disconnected from remote Docker host. Using local Docker daemon.",
                          NewRun(ext)),
          hosts |-> [currentHost |-> "", DOCKER_HOST |-> ""]]
    [] OTHER ->
         LET t == testConnection(NewRun(ext))
         IN [body |-> Return(ConnectedOrFailed(t.connected), t.run), hosts |-> hosts]

DockerRemoteConnectionBody(req, ext, hosts) ==
  CASE req.action = "connect" ->
         IF Len(req.host) = 0
         THEN [body |-> Throw("Host is required for connection", NewRun(ext)),
               hosts |-> hosts]
         ELSE LET host == ConnectHost(req)
                  t == testConnection(NewRun(ext))
              IN [body |->
                    IF ~t.connected
                    THEN Throw("Failed to connect to remote Docker host", t.run)
                    ELSE Return("\\u2705 Successfully connected to Docker host: " \o host
                                \o "\n\nUse 'docker_remote_connection' with action 'status' to check connection status.",
                                t.run),
                  hosts |-> setDockerHost(host)]
    [] req.action = "disconnect" ->
         [body |-> Return("\\u2705 Disconnected from remote Docker host. Using local Docker daemon.",
                          NewRun(ext)),
          hosts |-> [currentHost |-> "", DOCKER_HOST |-> ""]]
    [] req.action = "status" ->
         LET info == getConnectionInfo(NewRun(ext), hosts)
         IN [body |-> Return("## Docker Connection Status\n\n" \o info.text, info.run),
             hosts |-> hosts]
    [] req.action = "test" ->
         LET t == testConnection(NewRun(ext))
         IN [body |-> Return("## Connection Test\n\nHost: " \o HostOrLocal(hosts)
                             \o "\nStatus: " \o ConnectedOrFailed(t.connected), t.run),
             hosts |-> hosts]

DockerRemoteConnectionHandler(req, ext, hosts) ==
  LET done == DockerRemoteConnectionBody(req, ext, hosts)
  IN [result |-> TryCatch("Error with remote connection: ", done.body),
      hosts |-> done.hosts]

\* ---- DockerMonitor ----------------------------------------------------------------
StatsCommand ==
  "docker stats --no-stream --format \"table {{.Container}}\t{{.CPUPerc}}\t{{.MemUsage}}\t{{.NetIO}}\t{{.BlockIO}}\""

\* run one command; its stdout, or the error of executeDockerCommand
Stdout(run, command) ==
  LET run1 == Call(run, command)
  IN IF LastFailed(run1) THEN Throw(ExecError(run1), run1)
     ELSE Return(run.ext.stdout, run1)

getLiveStats(run, containerName) ==
  Stdout(run, IF Len(containerName) > 0 THEN StatsCommand \o " " \o containerName
              ELSE StatsCommand)

getSystemEvents(run, since) ==
  Stdout(run, "docker events --since " \o since \o " --until now")

\* what JSON.parse or the property reads raise on output that is not the
\* array of objects docker inspect prints
JsonError == "Unexpected end of JSON input"

getContainerHealth(run, containerName) ==
  LET run1 == Call(run, "docker inspect " \o containerName)
      data == run.ext.inspect
  IN IF LastFailed(run1)
     THEN Throw("Failed to get health info: " \o ExecError(run1), run1)
     ELSE IF ~data.parsed
     THEN Throw("Failed to get health info: " \o JsonError, run1)
     ELSE Return("Container: " \o containerName
                 \o "\nStatus: " \o data.State.Status
                 \o "\nHealth: "
                 \o (IF Len(data.State.Health) > 0 THEN data.State.Health ELSE "none")
                 \o "\nStarted: " \o data.State.StartedAt
                 \o "\nFinished: "
                 \o (IF Len(data.State.FinishedAt) > 0 THEN data.State.FinishedAt
                     ELSE "N/A"),
                 run1)

\* ---- docker_monitoring_advanced --------------------------------------------------
Fence == "\\u0060\\u0060\\u0060"

\* `<heading>\n\n```\n${text}\n```` around the value a body returned
Fenced(heading, body) ==
  IF body.kind = "throw" THEN body
  ELSE [body EXCEPT !.text = heading \o Fence \o "\n" \o body.text \o "\n" \o Fence]

DockerMonitoringAdvancedHandler(req, ext) ==
  LET body ==
        CASE req.action = "live_stats" ->
               Fenced("## Live Docker Statistics\n\n", getLiveStats(NewRun(ext), req.container))
          [] req.action = "health" ->
               IF Len(req.container) = 0
               THEN Throw("Container name is required for health check", NewRun(ext))
               ELSE LET health == getContainerHealth(NewRun(ext), req.container)
                    IN IF health.kind = "throw" THEN health
                       ELSE [health EXCEPT !.text = "## Container Health Check\n\n" \o @]
          [] req.action = "events" ->
               LET since == IF Len(req.since) > 0 THEN req.since ELSE "1h"
               IN Fenced("## Docker System Events (last " \o since \o ")\n\n",
                         getSystemEvents(NewRun(ext), since))
          [] req.action = "system_info" ->
               Fenced("## Docker System Information\n\n",
                      Stdout(NewRun(ext), "docker system info"))
          [] req.action = "performance" ->
               \* Promise.all: the three are started together, the first failure is thrown
               LET run == Call(Call(Call(NewRun(ext), "docker system df -v"),
                                    "docker version"),
                               "docker ps --format 'table {{.Names}}\t{{.Status}}\t{{.Ports}}'")
               IN IF (1..3) \cap ext.fails # {} THEN Throw(ExecError(run), run)
                  ELSE Return("## Docker Performance Overview\n\n### Disk Usage\n" \o Fence
                              \o "\n" \o ext.stdout \o "\n" \o Fence
                              \o "\n\n### Running Containers\n" \o Fence
                              \o "\n" \o ext.stdout \o "\n" \o Fence
                              \o "\n\n### Version\n" \o Fence
                              \o "\n" \o ext.stdout \o "\n" \o Fence, run)
  IN TryCatch("Error with advanced monitoring: ", body)

\* ---- DockerBackup ------------------------------------------------------------------
VolumeMounts(mounts) ==
  LET keep == {k \in 1..Len(mounts) : mounts[k].Type = "volume"}
  IN [j \in 1..Cardinality(keep) |-> mounts[SelectIdx(Len(mounts), keep)[j]]]

BackupSteps(containerName, backupPath, inspectStdout) ==
  LET configPath == backupPath \o "/" \o containerName \o "-config.json"
      tarPath == backupPath \o "/" \o containerName \o "-backup.tar"
  IN <<[cmd |-> "mkdir -p " \o backupPath, lines |-> <<>>],
       [cmd |-> "docker export " \o containerName \o " > " \o tarPath,
        lines |-> <<"\\u2705 Exported container " \o containerName \o " to "
                    \o tarPath>>],
       [cmd |-> "docker inspect " \o containerName, lines |-> <<>>],
       [cmd |-> "echo '" \o inspectStdout \o "' > " \o configPath,
        lines |-> <<"\\u2705 Saved container configuration to " \o configPath>>]>>

VolumeBackupSteps(backupPath, mounts) ==
  [k \in 1..Len(mounts) |->
     [cmd |-> "docker run --rm -v " \o mounts[k].Name \o ":/volume -v " \o backupPath
              \o ":/backup alpine tar czf /backup/" \o mounts[k].Name
              \o "-volume.tar -C /volume .",
      lines |-> <<"\\u2705 Backed up volume " \o mounts[k].Name \o " to "
                  \o backupPath \o "/" \o mounts[k].Name \o "-volume.tar">>]]

backupContainer(run, containerName, backupPath) ==
  LET data == run.ext.inspect
      first == RunSteps(run, BackupSteps(containerName, backupPath, data.text), <<>>)
  IN IF first.failed THEN Throw("Backup failed: " \o ExecError(first.run), first.run)
     ELSE IF ~data.parsed THEN Throw("Backup failed: " \o JsonError, first.run)
     ELSE LET rest == RunSteps(first.run,
                               VolumeBackupSteps(backupPath, VolumeMounts(data.Mounts)),
                               first.results)
          IN IF rest.failed
             THEN Throw("Backup failed: " \o ExecError(rest.run), rest.run)
             ELSE [kind |-> "return", text |-> Join(rest.results, "\n"),
                   cmds |-> rest.run.cmds]

\* JSON.stringify of a string
RECURSIVE JsonEscape(_)
JsonEscape(s) ==
  IF Len(s) = 0 THEN ""
  ELSE (IF Head(s) \in {"\"", "\\"} THEN "\\" \o Head(s) ELSE Head(s))
       \o JsonEscape(Tail(s))

\* JSON.stringify(metadata, null, 2)
MetadataJson(projectName, now, resources) ==
  "{\n  \"projectName\": \"" \o JsonEscape(projectName)
  \o "\",\n  \"exportDate\": \"" \o now
  \o "\",\n  \"resources\": {\n    \"containers\": " \o DecStr(Len(resources.containers))
  \o ",\n    \"networks\": " \o DecStr(Len(resources.networks))
  \o ",\n    \"volumes\": " \o DecStr(Len(resources.volumes))
  \o "\n  }\n}"

\* the containers of the project one after the other, up to the first backup that throws
RECURSIVE ExportContainers(_, _, _, _)
ExportContainers(run, containers, path, results) ==
  IF Len(containers) = 0 THEN [run |-> run, failed |-> FALSE, results |-> results]
  ELSE LET b == backupContainer(run, Head(containers).Names, path)
           run1 == [run EXCEPT !.cmds = b.cmds]
       IN IF b.kind = "throw"
          THEN [run |-> run1, failed |-> TRUE, results |-> results, text |-> b.text]
          ELSE ExportContainers(run1, Tail(containers), path,
                                Append(results, "\\u2705 Exported container "
                                                \o Head(containers).Names))

exportProject(run, projectName, exportPath) ==
  LET resources == getProjectResources(run, projectName)
      path == exportPath \o "/" \o projectName
      run1 == Call(resources.run, "mkdir -p " \o path)
      exported == ExportContainers(run1, resources.containers, path, <<>>)
      run2 == Call(exported.run,
                   "echo '" \o MetadataJson(projectName, run.ext.now, resources)
                   \o "' > " \o path \o "/project-metadata.json")
  IN IF LastFailed(run1) THEN Throw("Export failed: " \o ExecError(run1), run1)
     ELSE IF exported.failed
     THEN Throw("Export failed: " \o exported.text, exported.run)
     ELSE IF LastFailed(run2) THEN Throw("Export failed: " \o ExecError(run2), run2)
     ELSE Return("## Project Export Complete\n\n"
                 \o Join(Append(exported.results, "\\u2705 Exported project metadata"),
                         "\n")
                 \o "\n\nProject " \o projectName \o " has been exported to " \o path,
                 run2)

\* ---- docker_backup_migration -----------------------------------------------------
DockerBackupMigrationHandler(req, ext) ==
  LET body ==
        LET path == IF Len(req.backupPath) > 0 THEN req.backupPath ELSE "/tmp/docker-backups"
            cleanupDays == IF req.days # 0 THEN req.days ELSE 7
        IN CASE req.action = "backup_container" ->
                  IF Len(req.containerName) = 0
                  THEN Throw("Container name is required for backup", NewRun(ext))
                  ELSE LET b == backupContainer(NewRun(ext), req.containerName, path)
                       IN IF b.kind = "throw" THEN b
                          ELSE [b EXCEPT !.text = "## Container Backup Complete\n\n" \o @]
             [] req.action = "export_project" ->
                  IF Len(req.projectName) = 0
                  THEN Throw("Project name is required for export", NewRun(ext))
                  ELSE exportProject(NewRun(ext), req.projectName, path)
             [] req.action = "list_backups" ->
                  LET run == Call(NewRun(ext),
                                  "find " \o path
                                  \o " -name \"*.tar\" -o -name \"*-config.json\" | head -20")
                  IN IF LastFailed(run) THEN Throw(ExecError(run), run)
                     ELSE Return("## Available Backups\n\n" \o Fence \o "\n"
                                 \o (IF Len(ext.stdout) > 0 THEN ext.stdout
                                     ELSE "No backups found")
                                 \o "\n" \o Fence, run)
             [] req.action = "cleanup_backups" ->
                  LET run == Call(NewRun(ext),
                                  "find " \o path \o " -type f -mtime +"
                                  \o DecStr(cleanupDays) \o " -delete")
                  IN IF LastFailed(run) THEN Throw(ExecError(run), run)
                     ELSE Return("\\u2705 Cleaned up backups older than " \o DecStr(cleanupDays)
                                 \o " days from " \o path, run)
  IN TryCatch("Error with backup/migration: ", body)

\* ---- what the external programs may answer ------------------------------------------
\* the latest position, in the order a request issues its command lines, at
\* which a single invocation is made to fail
MaxFailAt == 5

ExecMessage == "Command failed: exit status 1"
Out == "3f1c9a2b7d5e"
Warn == "WARNING: No swap limit support"
Now == "2025-01-01T00:00:00.000Z"

NoResources == [containers |-> <<>>, networks |-> <<>>, volumes |-> <<>>]

SomeResources ==
  [containers |-> <<[ID |-> "c1", Names |-> "shop-nginx", State |-> "running"]>>,
   networks |-> <<[Name |-> "shop-network"]>>,
   volumes |-> <<[Name |-> "shop-mysql-data"]>>]

Unparsed == [parsed |-> FALSE, text |-> ""]

Inspected ==
  [parsed |-> TRUE,
   text |-> "[{\"State\":{\"Status\":\"running\",\"StartedAt\":\"t0\"},\"Mounts\":[{\"Type\":\"volume\",\"Name\":\"data\"}]}]",
   State |-> [Status |-> "running", Health |-> "", StartedAt |-> "t0",
              FinishedAt |-> ""],
   Mounts |-> <<[Type |-> "volume", Name |-> "data"]>>]

ExtOf(fails, stdout, stderr, listing, inspect) ==
  [fails |-> fails, stdout |-> stdout, stderr |-> stderr, message |-> ExecMessage,
   containers |-> listing.containers, networks |-> listing.networks,
   volumes |-> listing.volumes, inspect |-> inspect, now |-> Now]

\* one invocation: it fails, or prints to stdout and perhaps to stderr
SingleExt ==
  {ExtOf({1}, "", "", NoResources, Unparsed)}
  \cup {ExtOf({}, o, e, NoResources, Unparsed) : o \in {Out}, e \in {"", Warn}}
  \cup {ExtOf({}, "", "", NoResources, Unparsed)}

\* several invocations: none fails, one of them fails, or all of them fail
FailSets == {{}} \cup {{k} : k \in 1..MaxFailAt} \cup {1..MaxFailAt}

ListingExt == {ExtOf(f, Out, "", l, Unparsed) : f \in FailSets, l \in {NoResources, SomeResources}}

InspectExt == {ExtOf(f, i.text, Warn, NoResources, i) : f \in FailSets, i \in {Unparsed, Inspected}}

ExportExt ==
  {ExtOf(f, Inspected.text, "", l, Inspected) : f \in FailSets, l \in {NoResources, SomeResources}}

\* ---- what may be asked ------------------------------------------------------------
\* a name argument: left out, a plain name, a name that carries shell syntax
Names == {"", "web", "web; reboot"}

ProjectNames == {"shop", "blog"}

Descriptions == {"", "nginx on port 8080", "wordpress"}

Phrases ==
  {"stop container web", "docker ps -a", "show me all stopped containers",
   "list containers", "Docker Images", "docker ps; reboot"}

ExecuteRequests == {[command |-> c] : c \in Phrases}

ManageContainersRequests ==
  {r \in [action : {"list", "start", "stop", "remove", "restart"}, container : Names, all : BOOLEAN] :
     r.all => r.action = "list" /\ r.container = ""}

ManageImagesRequests ==
  {r \in [action : {"list", "pull", "remove", "build"}, image : Names, tag : {"", "latest"},
          dockerfile : {"", "Dockerfile.prod"}] :
     /\ r.tag # "" => r.action \in {"pull", "build"} /\ r.image = "web"
     /\ r.dockerfile # "" => r.action = "build" /\ r.image = "web"}

DockerInfoRequests == [type : {"info", "version", "stats", "disk_usage"}]

ManageVolumesRequests ==
  {r \in [action : {"list", "create", "remove", "inspect", "prune"}, volume : Names, driver : {"", "local"}] :
     r.driver # "" => r.action = "create" /\ r.volume = "web"}

ManageNetworksRequests ==
  {r \in [action : {"list", "create", "remove", "inspect", "connect", "disconnect", "prune"}, network : Names, container : {"", "web"},
          driver : {""}] :
     r.container # "" => r.action \in {"connect", "disconnect"}}

DockerRegistryRequests ==
  {r \in [action : {"search", "login", "logout", "push", "pull", "tag"}, query : {"", "nginx"}, image : Names,
          tag : {""}, newTag : {"", "web:v2"}, registry : {""},
          username : {"", "ops"}, password : {"", "secret"}] :
     /\ r.query # "" => r.action = "search" /\ r.image = ""
     /\ r.image # "" => r.action \in {"push", "pull", "tag"}
     /\ r.newTag # "" => r.action = "tag"
     /\ r.username # "" => r.action = "login"
     /\ r.password # "" => r.action = "login" /\ r.username # ""}

DockerMonitoringRequests ==
  {r \in [action : {"logs", "inspect", "exec", "top", "port", "stats", "events", "diff"}, container : Names, follow : {FALSE},
          tail : {0, 100}, command : {"", "ls; id"}, since : {""},
          until : {""}] :
     /\ r.tail # 0 => r.action = "logs" /\ r.container = "web"
     /\ r.command # "" => r.action = "exec" /\ r.container = "web"}

DockerComposeRequests ==
  {r \in [action : {"up", "down", "logs", "ps", "restart", "build"}, service : {"", "api", "api | tee /tmp/x"},
          detach : BOOLEAN, build : {FALSE}] :
     r.detach => r.action = "up"}

NoHealthCheck == [given |-> FALSE, test |-> "", interval |-> "", timeout |-> "",
                  retries |-> 0]
NoLimits == [given |-> FALSE, memory |-> "", cpus |-> "", memorySwap |-> ""]
NoSecurity == [given |-> FALSE, user |-> "", readOnly |-> FALSE, tmpfs |-> <<>>]

CreateContainerRequests ==
  {[image |-> "nginx", name |-> n, ports |-> ports, volumes |-> <<>>,
    environment |-> env, network |-> "", detached |-> TRUE, interactive |-> FALSE,
    command |-> "", workdir |-> "", restart |-> "", healthCheck |-> hc,
    resources |-> NoLimits, security |-> NoSecurity, labels |-> <<>>,
    hostname |-> "", domainname |-> "", projectName |-> pn] :
     n \in Names, ports \in {<<>>, <<"8080:80">>},
     env \in {<<>>, << <<"MODE", "prod">> >>},
     hc \in {NoHealthCheck,
             [given |-> TRUE, test |-> "curl -f http://localhost/",
              interval |-> "30s", timeout |-> "", retries |-> 3]},
     pn \in {"", "shop", "cost$1"}}

MonitoringAdvancedRequests ==
  {r \in [action : {"live_stats", "health", "events", "system_info", "performance"}, container : Names, since : {"", "2h"}] :
     /\ r.since # "" => r.action = "events"
     /\ r.container # "" => r.action \in {"live_stats", "health"}}

BackupRequests ==
  {r \in [action : {"backup_container", "export_project", "list_backups", "cleanup_backups"}, containerName : Names, projectName : {"", "shop"},
          backupPath : {"", "/backups"}, days : {0, 30}] :
     /\ r.containerName # "" => r.action = "backup_container"
     /\ r.projectName # "" => r.action = "export_project"
     /\ r.days # 0 => r.action = "cleanup_backups"
     /\ r.backupPath # "" => r.action \in {"list_backups", "backup_container"}}

ComposeAdvancedRequests ==
  {r \in [action : {"plan", "apply", "destroy", "status"}, projectName : ProjectNames, containers : Descriptions] :
     r.containers # "" => r.action = "plan"}

RemoteRequests ==
  {r \in [action : {"connect", "disconnect", "status", "test"}, host : {"", "tcp://remote:2375", "ssh://remote"},
          user : {"", "ops"}] :
     /\ r.host # "" => r.action = "connect"
     /\ r.user # "" => r.action = "connect"}

RemoteExt == {ExtOf(f, Out, "", NoResources, Unparsed) : f \in {{}, {1}}}

\* what the programs a request runs may answer
MonitoringAdvancedExt(req) ==
  IF req.action = "health" THEN InspectExt ELSE SingleExt \cup ListingExt

BackupExt(req) ==
  CASE req.action = "backup_container" -> InspectExt
    [] req.action = "export_project" -> ExportExt
    [] OTHER -> SingleExt

\* ---- the server's steps -----------------------------------------------------------
NoProjects == <<>>
NoHost == [currentHost |-> "", DOCKER_HOST |-> ""]
Hosts == [currentHost |-> currentHost, DOCKER_HOST |-> DOCKER_HOST]

\* the server is started with no plan stored and no DOCKER_HOST in its environment
Init ==
  /\ projects = NoProjects
  /\ currentHost = NoHost.currentHost
  /\ DOCKER_HOST = NoHost.DOCKER_HOST
  /\ last = Idle
  /\ prevError = FALSE

\* the answer to a request, on its way to the client
Answered(tool, req, ext, result) ==
  last' = [phase |-> "answered", tool |-> tool, req |-> req, ext |-> ext,
           result |-> result]

ExecuteDockerCommand ==
  /\ last = Idle
  /\ \E req \in ExecuteRequests, ext \in SingleExt :
       Answered("execute_docker_command", req, ext, ExecuteDockerCommandHandler(req, ext))
  /\ UNCHANGED <<projects, currentHost, DOCKER_HOST, prevError>>

ManageContainers ==
  /\ last = Idle
  /\ \E req \in ManageContainersRequests, ext \in SingleExt :
       Answered("manage_containers", req, ext, ManageContainersHandler(req, ext))
  /\ UNCHANGED <<projects, currentHost, DOCKER_HOST, prevError>>

ManageImages ==
  /\ last = Idle
  /\ \E req \in ManageImagesRequests, ext \in SingleExt :
       Answered("manage_images", req, ext, ManageImagesHandler(req, ext))
  /\ UNCHANGED <<projects, currentHost, DOCKER_HOST, prevError>>

DockerInfo ==
  /\ last = Idle
  /\ \E req \in DockerInfoRequests, ext \in SingleExt :
       Answered("docker_info", req, ext, DockerInfoHandler(req, ext))
  /\ UNCHANGED <<projects, currentHost, DOCKER_HOST, prevError>>

ManageVolumes ==
  /\ last = Idle
  /\ \E req \in ManageVolumesRequests, ext \in SingleExt :
       Answered("manage_volumes", req, ext, ManageVolumesHandler(req, ext))
  /\ UNCHANGED <<projects, currentHost, DOCKER_HOST, prevError>>

ManageNetworks ==
  /\ last = Idle
  /\ \E req \in ManageNetworksRequests, ext \in SingleExt :
       Answered("manage_networks", req, ext, ManageNetworksHandler(req, ext))
  /\ UNCHANGED <<projects, currentHost, DOCKER_HOST, prevError>>

CreateContainer ==
  /\ last = Idle
  /\ \E req \in CreateContainerRequests, ext \in SingleExt :
       Answered("create_container", req, ext, CreateContainerHandler(req, ext))
  /\ UNCHANGED <<projects, currentHost, DOCKER_HOST, prevError>>

DockerRegistry ==
  /\ last = Idle
  /\ \E req \in DockerRegistryRequests, ext \in SingleExt :
       Answered("docker_registry", req, ext, DockerRegistryHandler(req, ext))
  /\ UNCHANGED <<projects, currentHost, DOCKER_HOST, prevError>>

DockerMonitoring ==
  /\ last = Idle
  /\ \E req \in DockerMonitoringRequests, ext \in SingleExt :
       Answered("docker_monitoring", req, ext, DockerMonitoringHandler(req, ext))
  /\ UNCHANGED <<projects, currentHost, DOCKER_HOST, prevError>>

DockerCompose ==
  /\ last = Idle
  /\ \E req \in DockerComposeRequests, ext \in SingleExt :
       Answered("docker_compose", req, ext, DockerComposeHandler(req, ext))
  /\ UNCHANGED <<projects, currentHost, DOCKER_HOST, prevError>>

DockerMonitoringAdvanced ==
  /\ last = Idle
  /\ \E req \in MonitoringAdvancedRequests :
       \E ext \in MonitoringAdvancedExt(req) :
       Answered("docker_monitoring_advanced", req, ext,
                DockerMonitoringAdvancedHandler(req, ext))
  /\ UNCHANGED <<projects, currentHost, DOCKER_HOST, prevError>>

DockerBackupMigration ==
  /\ last = Idle
  /\ \E req \in BackupRequests :
       \E ext \in BackupExt(req) :
       Answered("docker_backup_migration", req, ext, DockerBackupMigrationHandler(req, ext))
  /\ UNCHANGED <<projects, currentHost, DOCKER_HOST, prevError>>

DockerComposeAdvanced ==
  /\ last = Idle
  /\ \E req \in ComposeAdvancedRequests, ext \in ListingExt :
       \E done \in {DockerComposeAdvancedHandler(req, ext, projects)} :
         /\ Answered("docker_compose_advanced", req, ext, done.result)
         /\ projects' = done.projects
  /\ UNCHANGED <<currentHost, DOCKER_HOST, prevError>>

DockerRemoteConnection ==
  /\ last = Idle
  /\ \E req \in RemoteRequests, ext \in RemoteExt :
       \E done \in {DockerRemoteConnectionHandler(req, ext, Hosts)} :
         /\ Answered("docker_remote_connection", req, ext, done.result)
         /\ currentHost' = done.hosts.currentHost
         /\ DOCKER_HOST' = done.hosts.DOCKER_HOST
  /\ UNCHANGED <<projects, prevError>>

\* the answer has gone out over the transport; the server waits for the next request
Reply ==
  /\ last # Idle
  /\ last.phase = "answered"
  /\ prevError' = (last.result.kind # "result" \/ last.result.isError)
  /\ last' = Idle
  /\ UNCHANGED <<projects, currentHost, DOCKER_HOST>>

Next ==
  \/ ExecuteDockerCommand
  \/ ManageContainers
  \/ ManageImages
  \/ DockerInfo
  \/ ManageVolumes
  \/ ManageNetworks
  \/ CreateContainer
  \/ DockerRegistry
  \/ DockerMonitoring
  \/ DockerCompose
  \/ DockerMonitoringAdvanced
  \/ DockerBackupMigration
  \/ DockerComposeAdvanced
  \/ DockerRemoteConnection
  \/ Reply

Spec == Init /\ [][Next]_vars

(***************************************************************************)
(* What the answers are checked against.                                   *)
(***************************************************************************)
\* server.tool(name, ...): the answer of the handler registered under a tool's
\* name, given the plans stored and the host override at the time of the call
Outcome(tool, req, ext, stored, hosts) ==
  CASE tool = "execute_docker_command" -> ExecuteDockerCommandHandler(req, ext)
    [] tool = "manage_containers" -> ManageContainersHandler(req, ext)
    [] tool = "manage_images" -> ManageImagesHandler(req, ext)
    [] tool = "docker_info" -> DockerInfoHandler(req, ext)
    [] tool = "manage_volumes" -> ManageVolumesHandler(req, ext)
    [] tool = "manage_networks" -> ManageNetworksHandler(req, ext)
    [] tool = "create_container" -> CreateContainerHandler(req, ext)
    [] tool = "docker_registry" -> DockerRegistryHandler(req, ext)
    [] tool = "docker_monitoring" -> DockerMonitoringHandler(req, ext)
    [] tool = "docker_compose" -> DockerComposeHandler(req, ext)
    [] tool = "docker_monitoring_advanced" -> DockerMonitoringAdvancedHandler(req, ext)
    [] tool = "docker_backup_migration" -> DockerBackupMigrationHandler(req, ext)
    [] tool = "docker_compose_advanced" ->
         DockerComposeAdvancedHandler(req, ext, stored).result
    [] tool = "docker_remote_connection" ->
         DockerRemoteConnectionHandler(req, ext, hosts).result

(***************************************************************************)
(* The translation on its own: a phrase is asked, execute_docker_command   *)
(* translates it and runs what it translated it to.                        *)
(***************************************************************************)
ContainerNames == {"web", "my_app-1", "db2"}

LifecyclePhrases ==
  {v \o " container " \o n : v \in {"stop", "kill", "restart", "remove"},
                             n \in ContainerNames}

\* phrases of the branches that substitute a captured name
CapturePhrases ==
  {"inspect container web", "build image web", "remove image web", "remove volume web",
   "inspect volume web", "remove network web", "disconnect web from network backend",
   "top in web", "reboot web", "start container web", "logs from container web",
   "pull image nginx"}

DirectCommands ==
  {"docker ps -a", "docker images", "docker system df", "docker images -Q",
   "docker logs web", "docker network ls", "docker stop web", "docker run -d nginx"}

ListingPhrases ==
  {"show me all stopped containers", "list containers", "show containers",
   "list all containers", "show running containers", "show stopped containers",
   "which containers are running", "show me all containers", "list the containers"}

ServiceNames == {"web", "api"}

ComposePhrases ==
  {"compose up", "compose down", "compose status", "compose ps", "compose build"}
  \cup {"compose logs from " \o s : s \in ServiceNames}
  \cup {"restart service " \o s : s \in ServiceNames}

NetworkNames == {"backend", "frontend"}

LinkPhrases ==
  {"connect container " \o c \o " to network " \o n : c \in ContainerNames, n \in NetworkNames}
  \cup {"disconnect container " \o c \o " from network " \o n :
          c \in ContainerNames, n \in NetworkNames}

CreatePhrases ==
  {v \o " " \o k \o " " \o x : v \in {"create", "make"}, k \in {"volume", "network"},
                             x \in ContainerNames \cup {"mydata"}}

\* the phrases the help resource lists under System Cleanup
CleanupPhrases ==
  {"cleanup", "prune system", "cleanup everything", "prune all", "cleanup with volumes"}

ParsePhrases ==
  LifecyclePhrases \cup CapturePhrases \cup DirectCommands \cup ListingPhrases
  \cup ComposePhrases \cup LinkPhrases \cup CreatePhrases \cup CleanupPhrases

InitParse ==
  /\ projects = NoProjects
  /\ currentHost = NoHost.currentHost
  /\ DOCKER_HOST = NoHost.DOCKER_HOST
  /\ last \in {[phase |-> "asked", tool |-> "execute_docker_command",
                req |-> [command |-> p]] : p \in ParsePhrases}
  /\ prevError = FALSE

Translate ==
  /\ last.phase = "asked"
  /\ \E ext \in SingleExt :
       Answered(last.tool, last.req, ext, ExecuteDockerCommandHandler(last.req, ext))
  /\ UNCHANGED <<projects, currentHost, DOCKER_HOST, prevError>>

SpecParse == InitParse /\ [][Translate]_vars

(***************************************************************************)
(* The plan+apply workflow on its own: a plan is asked for under a project *)
(* name, the plan is answered and stored, and apply is asked for the same  *)
(* project; the apply answer is kept next to the plan answer it follows.   *)
(***************************************************************************)
PlanRequests == {r \in ComposeAdvancedRequests : r.action = "plan" /\ r.containers # ""}

InitPlan ==
  /\ projects = NoProjects
  /\ currentHost = NoHost.currentHost
  /\ DOCKER_HOST = NoHost.DOCKER_HOST
  /\ last \in {[phase |-> "asked", tool |-> "docker_compose_advanced", req |-> r] :
                 r \in PlanRequests}
  /\ prevError = FALSE

\* docker_compose_advanced, case "plan"
Plan ==
  /\ last.phase = "asked"
  /\ \E ext \in ListingExt :
       \E done \in {DockerComposeAdvancedHandler(last.req, ext, projects)} :
         /\ Answered(last.tool, last.req, ext, done.result)
         /\ projects' = done.projects
  /\ UNCHANGED <<currentHost, DOCKER_HOST, prevError>>

\* docker_compose_advanced, case "apply", for the project just planned
Apply ==
  /\ last.phase = "answered"
  /\ \E ext \in ListingExt :
       \E req \in {[action |-> "apply", projectName |-> last.req.projectName,
                     containers |-> ""]} :
         \E done \in {DockerComposeAdvancedHandler(req, ext, projects)} :
           /\ last' = [phase |-> "applied", tool |-> last.tool, req |-> req,
                        ext |-> ext, result |-> done.result, plan |-> last.result]
           /\ projects' = done.projects
  /\ UNCHANGED <<currentHost, DOCKER_HOST, prevError>>

SpecPlanApply == InitPlan /\ [][Plan \/ Apply]_vars

(***************************************************************************)
(* Requests served side by side.  A handler is an async function: it runs  *)
(* up to its first await when the request arrives, and goes on each time   *)
(* the external program it awaits has exited; between two awaits the       *)
(* handlers of other requests run.  The requests are a multi-step one, a   *)
(* connect, a disconnect and a docker logs -f that follows a container.    *)
(***************************************************************************)
RemoteHost == "tcp://remote:2375"

\* the server after a plan request for shop was answered
PlannedShop == setProject(NoProjects, "shop", parseNaturalLanguage("wordpress", "shop"))

MultiStepRequests ==
  {[tool |-> "docker_compose_advanced",
    req |-> [action |-> a, projectName |-> "shop", containers |-> ""],
    ext |-> ExtOf({}, Out, "", SomeResources, Unparsed)] : a \in {"apply", "destroy"}}
  \cup
  {[tool |-> "docker_backup_migration",
    req |-> [action |-> "backup_container", containerName |-> "web", projectName |-> "",
             backupPath |-> "", days |-> 0],
    ext |-> ExtOf({}, Inspected.text, Warn, NoResources, Inspected)],
   [tool |-> "docker_backup_migration",
    req |-> [action |-> "export_project", containerName |-> "", projectName |-> "shop",
             backupPath |-> "", days |-> 0],
    ext |-> ExtOf({}, Inspected.text, "", SomeResources, Inspected)]}

\* the three invocations of performance, all exiting well or the second failing
PerformanceRequests ==
  {[tool |-> "docker_monitoring_advanced",
    req |-> [action |-> "performance", container |-> "", since |-> ""],
    ext |-> ExtOf(f, Out, "", NoResources, Unparsed)] : f \in {{}, {2}}}

ConnectRequest ==
  [tool |-> "docker_remote_connection",
   req |-> [action |-> "connect", host |-> RemoteHost, user |-> ""],
   ext |-> ExtOf({}, Out, "", NoResources, Unparsed)]

\* the same connect, with the docker version of its connection test failing
FailingConnectRequest ==
  [ConnectRequest EXCEPT !.ext = ExtOf({1}, "", "", NoResources, Unparsed)]

\* a connect over ssh that gives the user apart from the host, its test failing
SshConnectRequest ==
  [FailingConnectRequest EXCEPT !.req = [action |-> "connect", host |-> "ssh://remote",
                                         user |-> "ops"]]

DisconnectRequest ==
  [tool |-> "docker_remote_connection",
   req |-> [action |-> "disconnect", host |-> "", user |-> ""],
   ext |-> ExtOf({}, Out, "", NoResources, Unparsed)]

FollowRequest ==
  [tool |-> "docker_monitoring",
   req |-> [action |-> "logs", container |-> "web", follow |-> TRUE, tail |-> 0,
            command |-> "", since |-> "", until |-> ""],
   ext |-> ExtOf({}, Out, "", NoResources, Unparsed)]

\* a request that has not arrived yet; hangs are the invocations, by position,
\* whose program never exits
Waiting(r, hangs) ==
  [tool |-> r.tool, req |-> r.req, ext |-> r.ext, hangs |-> hangs, state |-> "waiting",
   result |-> Idle, cmds |-> <<>>, issued |-> 0, awaiting |-> {}, targets |-> {},
   startHost |-> "", override |-> ""]

InitAsync ==
  /\ projects = PlannedShop
  /\ currentHost = NoHost.currentHost
  /\ DOCKER_HOST = NoHost.DOCKER_HOST
  /\ \E m \in (MultiStepRequests \X {{}}) \cup (PerformanceRequests \X {{}, {1}}),
        c \in {ConnectRequest, FailingConnectRequest, SshConnectRequest} :
       last = [phase |-> "serving",
               tasks |-> <<Waiting(m[1], m[2]), Waiting(c, {}),
                           Waiting(DisconnectRequest, {}), Waiting(FollowRequest, {1})>>]
  /\ prevError = FALSE

\* the handler registered under the tool's name: its answer, and what it writes
\* before its first await (the plan store, the host override)
Served(tool, req, ext, stored, hosts) ==
  CASE tool = "docker_compose_advanced" ->
         LET done == DockerComposeAdvancedHandler(req, ext, stored)
         IN [result |-> done.result, projects |-> done.projects, hosts |-> hosts]
    [] tool = "docker_remote_connection" ->
         LET done == DockerRemoteConnectionHandler(req, ext, hosts)
         IN [result |-> done.result, projects |-> stored, hosts |-> done.hosts]
    [] tool = "docker_backup_migration" ->
         [result |-> DockerBackupMigrationHandler(req, ext), projects |-> stored,
          hosts |-> hosts]
    [] tool = "docker_monitoring" ->
         [result |-> DockerMonitoringHandler(req, ext), projects |-> stored,
          hosts |-> hosts]
    [] tool = "docker_monitoring_advanced" ->
         [result |-> DockerMonitoringAdvancedHandler(req, ext), projects |-> stored,
          hosts |-> hosts]

\* the invocations started together after `issued` of them: the three listings
\* of getProjectResources and the three invocations of performance go out in
\* one Promise.all, any other one by one
NextIssued(cmds, issued) ==
  IF issued + 3 <= Len(cmds)
     /\ \/ StartsWith(cmds[issued + 1], "docker ps -a --filter \"label=")
        \/ cmds[issued + 1] = "docker system df -v"
  THEN issued + 3
  ELSE issued + 1

\* an await with a timer that gives up on the programs
SettledOrTimedOut(t) == TRUE

\* await: the handler goes on when the programs it started have exited, or, for
\* invocations joined by Promise.all, as soon as one of them is rejected: one
\* that has exited with an error nothing catches before the await (each listing
\* of getProjectResources has its own .catch, no other invocation has)
Settled(t) ==
  \/ t.awaiting = {}
  \/ \E k \in (1..t.issued) \ t.awaiting :
       k \in t.ext.fails /\ ~Includes(t.cmds[k], " --filter \"label=")

\* child_process.exec: the new processes inherit process.env, DOCKER_HOST included
Started(t, host) ==
  [t EXCEPT !.issued = NextIssued(t.cmds, t.issued),
            !.awaiting = (t.issued + 1)..NextIssued(t.cmds, t.issued),
            !.targets = @ \cup {host}]

\* the request once its handler has run up to its first await: answered when the
\* handler awaited nothing, waiting for its first invocations otherwise
Called(t, result, host, hostAfter) ==
  IF Len(result.cmds) = 0
  THEN [t EXCEPT !.result = result, !.startHost = host, !.state = "answered",
                 !.override = hostAfter]
  ELSE [Started([t EXCEPT !.result = result, !.cmds = result.cmds, !.startHost = host],
                hostAfter)
          EXCEPT !.state = "running"]

\* a request arrives: its handler runs up to its first await
Arrive ==
  /\ last.phase = "serving"
  /\ \E i \in DOMAIN last.tasks :
       /\ last.tasks[i].state = "waiting"
       /\ \E eff \in {Served(last.tasks[i].tool, last.tasks[i].req, last.tasks[i].ext,
                             projects, Hosts)} :
            /\ projects' = eff.projects
            /\ currentHost' = eff.hosts.currentHost
            /\ DOCKER_HOST' = eff.hosts.DOCKER_HOST
            /\ last' = [last EXCEPT !.tasks[i] =
                          Called(@, eff.result, DOCKER_HOST, eff.hosts.DOCKER_HOST)]
  /\ UNCHANGED prevError

\* an external program exits, unless it is one that never does
ProcessExit ==
  /\ last.phase = "serving"
  /\ \E i \in DOMAIN last.tasks :
       \E k \in last.tasks[i].awaiting \ last.tasks[i].hangs :
         last' = [last EXCEPT !.tasks[i].awaiting = @ \ {k}]
  /\ UNCHANGED <<projects, currentHost, DOCKER_HOST, prevError>>

\* the handler goes on after an await and starts its next invocation
Continue ==
  /\ last.phase = "serving"
  /\ \E i \in DOMAIN last.tasks :
       LET t == last.tasks[i]
       IN /\ t.state = "running" /\ Settled(t) /\ t.issued < Len(t.cmds)
          /\ last' = [last EXCEPT !.tasks[i] = Started(t, DOCKER_HOST)]
  /\ UNCHANGED <<projects, currentHost, DOCKER_HOST, prevError>>

\* the handler goes on after its last await and returns its answer
Respond ==
  /\ last.phase = "serving"
  /\ \E i \in DOMAIN last.tasks :
       LET t == last.tasks[i]
       IN /\ t.state = "running" /\ Settled(t) /\ t.issued = Len(t.cmds)
          /\ last' = [last EXCEPT !.tasks[i].state = "answered",
                                  !.tasks[i].override = DOCKER_HOST]
  /\ UNCHANGED <<projects, currentHost, DOCKER_HOST, prevError>>

NextAsync == Arrive \/ ProcessExit \/ Continue \/ Respond

SpecAsync == InitAsync /\ [][NextAsync]_vars

\* every program that can exit does, and every callback that is ready runs;
\* nothing is assumed about when, or whether, a request arrives
SpecAsyncFair ==
  SpecAsync /\ WF_vars(ProcessExit) /\ WF_vars(Continue) /\ WF_vars(Respond)

\* the argument a tool's action asks for by name; <<>> when it asks for none
RequiredArgument(tool, req) ==
  CASE tool = "manage_containers" /\ req.action \in {"start", "stop", "remove", "restart"} ->
         <<req.container>>
    [] tool = "manage_volumes" /\ req.action \in {"create", "remove", "inspect"} ->
         <<req.volume>>
    [] tool = "manage_networks"
         /\ req.action \in {"create", "remove", "inspect", "connect", "disconnect"} ->
         <<req.network>>
    [] tool = "manage_images" /\ req.action \in {"pull", "remove", "build"} ->
         <<req.image>>
    [] tool = "docker_registry" /\ req.action = "search" -> <<req.query>>
    [] tool = "docker_registry" /\ req.action \in {"push", "pull", "tag"} -> <<req.image>>
    [] tool = "docker_monitoring"
         /\ req.action \in {"logs", "inspect", "exec", "top", "port", "diff"} ->
         <<req.container>>
    [] tool = "docker_monitoring_advanced" /\ req.action = "health" -> <<req.container>>
    [] tool = "docker_backup_migration" /\ req.action = "backup_container" ->
         <<req.containerName>>
    [] tool = "docker_backup_migration" /\ req.action = "export_project" ->
         <<req.projectName>>
    [] tool = "docker_remote_connection" /\ req.action = "connect" -> <<req.host>>
    [] tool = "docker_compose_advanced" /\ req.action = "plan" -> <<req.containers>>
    [] OTHER -> <<>>

NameLeftOut(tool, req) == RequiredArgument(tool, req) = <<"">>

\* C1: a request for an action that needs a name argument, made without that
\* argument (or with the empty string), is answered with isError set and
\* without any external program having been run.
C1_MissingNameIsRefused ==
  last.phase = "answered" /\ NameLeftOut(last.tool, last.req)
    => last.result.isError /\ last.result.cmds = <<>>

\* a network connect without its network name has been refused
C1_Witness ==
  /\ last.phase = "answered"
  /\ last.tool = "manage_networks" /\ last.req.action = "connect"
  /\ last.req.network = "" /\ last.req.container = "web"
  /\ last.result.isError /\ last.result.cmds = <<>>

\* the invocations of the request just answered that failed
FailedInvocations == {k \in 1..Len(last.result.cmds) : k \in last.ext.fails}

AnswerText == last.result.content[1].text

\* C2: when an external invocation made for a request fails, the answer tells
\* the caller: it is flagged isError or its text reports the failure; no such
\* answer reads as plain success or as an empty result.
C2_FailureIsSurfaced ==
  last.phase = "answered" /\ FailedInvocations # {}
    => last.result.isError \/ Includes(AnswerText, "ailed")

\* the status of a project whose three listings all failed reads as a project
\* with no resources
C2_SilentFailure ==
  /\ last.phase = "answered"
  /\ last.tool = "docker_compose_advanced" /\ last.req.action = "status"
  /\ FailedInvocations = {1, 2, 3}
  /\ ~last.result.isError
  /\ ~Includes(AnswerText, "ailed")

PlanRead ==
  IF last.tool = "docker_compose_advanced" /\ last.req.action = "apply"
  THEN [n \in DOMAIN projects \cap {last.req.projectName} |-> projects[n]]
  ELSE NoProjects

\* the host override a status or test request reports
HostRead ==
  IF last.tool = "docker_remote_connection" /\ last.req.action \in {"status", "test"}
  THEN Hosts
  ELSE NoHost

\* C4 as stated: the command lines issued and the answer of a request are
\* those the same request gets from a server that has handled nothing before.
C4_IndependentOfHistory ==
  last.phase = "answered"
    => last.result = Outcome(last.tool, last.req, last.ext, NoProjects, NoHost)

\* C4, amended: the command lines issued and the answer of a request are fixed
\* by the request, the external programs' behaviour, and no more of the past
\* than the plan stored under the project name of a docker_compose_advanced
\* apply and the host override a docker_remote_connection status or test
\* reports.
C4_DependsOnPlanAndHostOnly ==
  last.phase = "answered"
    => last.result = Outcome(last.tool, last.req, last.ext, PlanRead, HostRead)

\* an apply that succeeds because a plan request came before it
C4_Witness ==
  /\ last.phase = "answered"
  /\ last.tool = "docker_compose_advanced" /\ last.req.action = "apply"
  /\ last.req.projectName \in DOMAIN projects
  /\ ~last.result.isError
  /\ Len(last.result.cmds) > 0
  /\ Outcome(last.tool, last.req, last.ext, NoProjects, NoHost).isError

\* execute_docker_command has answered: the phrase it was given, the line it ran
Translated == last.phase = "answered" /\ last.tool = "execute_docker_command"
Phrase == last.req.command
Issued == last.result.cmds[1]

\* C5: a branch that captures a name puts the captured name in its template;
\* the command line never holds the token undefined where a captured group
\* belongs.
C5_CapturedNameIsSubstituted ==
  Translated /\ ~Includes(Phrase, "undefined") => ~Includes(Issued, "undefined")

\* "inspect container web" has been run as docker inspect undefined
C5_UndefinedIssued ==
  /\ Translated
  /\ Phrase = "inspect container web"
  /\ Issued = "docker inspect undefined"

\* C6: "stop container N" is run as docker stop N, "kill container N" as
\* docker kill N, "restart container N" as docker restart N and "remove
\* container N" as docker rm N, for names N of letters, digits, _ and -.
C6_LifecycleOfNamedContainer ==
  Translated =>
    \A n \in ContainerNames :
      /\ Phrase = "stop container " \o n => Issued = "docker stop " \o n
      /\ Phrase = "kill container " \o n => Issued = "docker kill " \o n
      /\ Phrase = "restart container " \o n => Issued = "docker restart " \o n
      /\ Phrase = "remove container " \o n => Issued = "docker rm " \o n

\* "restart container my_app-1" has been run as docker start my_app-1
C6_RestartIssuedAsStart ==
  /\ Translated
  /\ Phrase = "restart container my_app-1"
  /\ Issued = "docker start my_app-1"

\* C7: an input that starts with docker is run as it was given, untouched by
\* the cascade and with its letter case kept.
C7_DirectCommandPassesThrough ==
  Translated /\ StartsWith(Phrase, "docker") => Issued = Phrase

\* "docker ps -a" has been run as docker-compose ps
C7_DirectCommandRewritten ==
  /\ Translated
  /\ Phrase = "docker ps -a"
  /\ Issued = "docker-compose ps"

\* C8: "show me all stopped containers" is run as
\* docker ps -a --filter "status=exited", and a phrase that asks to show or
\* list containers is run as a docker ps listing, never as a command that
\* stops, removes or takes down anything.
C8_ListingPhraseListsContainers ==
  Translated =>
    /\ Phrase = "show me all stopped containers"
         => Issued = "docker ps -a --filter \"status=exited\""
    /\ Phrase \in ListingPhrases => StartsWith(Issued, "docker ps")

\* "show me all stopped containers" has been run as docker-compose down
C8_ListingPhraseTakesDown ==
  /\ Translated
  /\ Phrase = "show me all stopped containers"
  /\ Issued = "docker-compose down"

\* the tools that run one command line and hand back what it printed
RelayTools ==
  {"execute_docker_command", "manage_containers", "manage_images", "docker_info",
   "manage_volumes", "manage_networks", "create_container", "docker_registry",
   "docker_monitoring", "docker_compose"}

\* every invocation the request made succeeded, and it made at least one
Succeeded ==
  last.phase = "answered" /\ last.result.cmds # <<>> /\ FailedInvocations = {}

RelaysStdout == Includes(AnswerText, last.ext.stdout)
RelaysStderr == Len(last.ext.stderr) > 0 => Includes(AnswerText, last.ext.stderr)

ShellValues == {"web; reboot", "ls; id", "api | tee /tmp/x", "docker ps; reboot"}

\* position i of a command line lies inside a pair of quotes
Quoted(line, i) ==
  \/ Cardinality({j \in 1..(i - 1) : At(line, j) = "\""}) % 2 = 1
  \/ Cardinality({j \in 1..(i - 1) : At(line, j) = "'"}) % 2 = 1

\* C10: whatever the argument values, a command line handed to the shell is
\* the one intended invocation: a value that carries shell syntax reaches the
\* line only inside quotes, where it cannot start a second command, a
\* redirection or a substitution.
C10_ValuesCannotAddCommands ==
  last.phase = "answered" =>
    \A k \in 1..Len(last.result.cmds) : \A v \in ShellValues :
      \A i \in 1..Len(last.result.cmds[k]) :
        HasAt(last.result.cmds[k], i, v) => Quoted(last.result.cmds[k], i)

\* stopping the container "web; reboot" has handed docker stop web; reboot to
\* the shell
C10_SecondCommandIssued ==
  /\ last.phase = "answered"
  /\ last.tool = "manage_containers" /\ last.req.action = "stop"
  /\ last.req.container = "web; reboot"
  /\ last.result.cmds = <<"docker stop web; reboot">>

\* ---- C11 ---------------------------------------------------------------------------
\* the resources a plan for project p can name: the containers of the known
\* services, the volumes they mount, and the project's network
Creatable(p) ==
  {<<"container", p \o "-" \o s>> : s \in {"wordpress", "mysql", "nginx", "redis", "postgres"}}
  \cup {<<"volume", p \o "-" \o v>> : v \in {"mysql-data", "postgres-data"}}
  \cup {<<"network", p \o "-network">>}

\* the plan text lists `CREATE <kind> <name>`
ListedInPlan(text, kind, name) ==
  \/ kind = "container" /\ Includes(text, "CREATE container " \o name \o " from ")
  \/ kind # "container" /\ Includes(text, "CREATE " \o kind \o " " \o name \o "\n")

\* a command line creates the resource
Creates(cmd, kind, name) ==
  CASE kind = "container" ->
         StartsWith(cmd, "docker run ") /\ Includes(cmd, " --name " \o name \o " ")
    [] kind = "volume" ->
         StartsWith(cmd, "docker volume create ")
         /\ SubSeq(cmd, Len(cmd) - Len(name), Len(cmd)) = " " \o name
    [] kind = "network" ->
         StartsWith(cmd, "docker network create ")
         /\ SubSeq(cmd, Len(cmd) - Len(name), Len(cmd)) = " " \o name

CreatedByApply(kind, name) ==
  \E k \in 1..Len(last.result.cmds) : Creates(last.result.cmds[k], kind, name)

AppliedWhole == last.phase = "applied" /\ ~last.result.isError

\* C11: an apply that ran to its end issued a create command for exactly the
\* resources the plan answered just before listed as CREATE actions, and no
\* create command at all when that plan said there were no changes to make.
C11_ApplyExecutesThePlan ==
  AppliedWhole =>
    /\ \A r \in Creatable(last.req.projectName) :
         CreatedByApply(r[1], r[2]) <=> ListedInPlan(last.plan.content[1].text, r[1], r[2])
    /\ Includes(last.plan.content[1].text, "No changes to make; project is up-to-date.")
         => last.result.cmds = <<>>

\* the plan said the project was up to date, and apply ran docker run all the same
C11_AppliedAfterNoChanges ==
  /\ AppliedWhole
  /\ Includes(last.plan.content[1].text, "No changes to make; project is up-to-date.")
  /\ \E k \in 1..Len(last.result.cmds) : StartsWith(last.result.cmds[k], "docker run ")

\* ---- C12 ---------------------------------------------------------------------------
\* the positions, among the command lines of the apply, of the docker run of a service
RunPositions(service) ==
  {k \in 1..Len(last.result.cmds) :
     Creates(last.result.cmds[k], "container",
             last.req.projectName \o "-" \o service)}

AppliedPlan == projects[last.req.projectName]

\* C12: in every apply, the docker run of a service comes after the docker run
\* of each service named in its depends_on list.
C12_DependenciesAreCreatedFirst ==
  last.phase = "applied" /\ last.req.projectName \in DOMAIN projects =>
    \A s \in 1..Len(AppliedPlan.services) :
      \A d \in 1..Len(AppliedPlan.services[s].depends_on) :
        \A k \in RunPositions(AppliedPlan.services[s].name) :
          \E j \in RunPositions(AppliedPlan.services[s].depends_on[d]) : j < k

\* the wordpress plan applied whole: wordpress is run before mysql, which it depends on
C12_WordpressRunBeforeMysql ==
  /\ AppliedWhole
  /\ \E k \in RunPositions("wordpress") : \E j \in RunPositions("mysql") : k < j

\* ---- C13 ---------------------------------------------------------------------------
\* a command line carries the label option of a project
CarriesLabel(cmd, projectName) ==
  Includes(cmd, " --label \"mcp-server-docker.project=" \o projectName \o "\"")

\* a command line lists by the label of a project
FiltersByLabel(cmd, projectName) ==
  Includes(cmd, " --filter \"label=mcp-server-docker.project=" \o projectName \o "\"")

CreatesResource(cmd) ==
  \/ StartsWith(cmd, "docker run ")
  \/ StartsWith(cmd, "docker network create ")
  \/ StartsWith(cmd, "docker volume create ")

\* C13: every docker run, docker network create and docker volume create of an
\* apply, and the docker run of a create_container given a projectName, carries
\* --label "mcp-server-docker.project=<projectName>"; the listings of plan,
\* status and destroy filter by that same label.
C13_ProjectResourcesAreLabelled ==
  last.phase = "answered" =>
    /\ last.tool = "docker_compose_advanced" /\ last.req.action = "apply" =>
         \A k \in 1..Len(last.result.cmds) :
           CreatesResource(last.result.cmds[k])
             => CarriesLabel(last.result.cmds[k], last.req.projectName)
    /\ last.tool = "create_container" /\ Len(last.req.projectName) > 0 =>
         \A k \in 1..Len(last.result.cmds) :
           CarriesLabel(last.result.cmds[k], last.req.projectName)
    /\ last.tool = "docker_compose_advanced"
       /\ last.req.action \in {"status", "destroy"} =>
         /\ Len(last.result.cmds) >= 3
         /\ \A k \in 1..3 : FiltersByLabel(last.result.cmds[k], last.req.projectName)

\* a container created for project cost$1 is labelled for another project name
C13_LabelledForAnotherName ==
  /\ last.phase = "answered" /\ last.tool = "create_container"
  /\ last.req.projectName = "cost$1" /\ ~last.result.isError
  /\ Includes(last.result.cmds[1], " --label \"mcp-server-docker.project=costdocker run\"")

\* ---- C14 ---------------------------------------------------------------------------
IssuedLine(cmd) == \E k \in 1..Len(last.result.cmds) : last.result.cmds[k] = cmd

Destroyed ==
  /\ last.phase = "answered"
  /\ last.tool = "docker_compose_advanced" /\ last.req.action = "destroy"

\* C14: destroy issues docker rm for every container, docker volume rm for
\* every volume and docker network rm for every network that carries the
\* project label, whichever of its other invocations fail.
C14_DestroyRemovesEveryResource ==
  Destroyed =>
    /\ \A c \in 1..Len(last.ext.containers) :
         IssuedLine("docker rm " \o last.ext.containers[c].ID)
    /\ \A v \in 1..Len(last.ext.volumes) :
         IssuedLine("docker volume rm " \o last.ext.volumes[v].Name)
    /\ \A n \in 1..Len(last.ext.networks) :
         IssuedLine("docker network rm " \o last.ext.networks[n].Name)

\* docker stop of the project's container failed and docker rm was not tried,
\* while the volume and the network were removed
C14_StopFailedAndNoRemove ==
  /\ Destroyed
  /\ last.ext.fails = {4}
  /\ Len(last.result.cmds) >= 4 /\ last.result.cmds[4] = "docker stop c1"
  /\ ~IssuedLine("docker rm c1")
  /\ IssuedLine("docker volume rm shop-mysql-data")
  /\ IssuedLine("docker network rm shop-network")

\* ---- C15 ---------------------------------------------------------------------------
\* the step answers a plan request that gives a description
PlanAnswered ==
  /\ last'.phase = "answered" /\ last'.tool = "docker_compose_advanced"
  /\ last'.req.action = "plan" /\ Len(last'.req.containers) > 0

\* the step answers an apply request
ApplyAnswered ==
  /\ last'.phase = "answered" /\ last'.tool = "docker_compose_advanced"
  /\ last'.req.action = "apply"

\* the services whose docker run the answered apply issued
ServicesRun ==
  {s \in {"wordpress", "mysql", "nginx", "redis", "postgres"} :
     \E k \in 1..Len(last'.result.cmds) :
       Creates(last'.result.cmds[k], "container", last'.req.projectName \o "-" \o s)}

\* C15: a plan request stores the description it was given under its project
\* name and leaves the plans of other names as they were; no other request
\* changes or removes a stored plan; apply runs the services of the plan stored
\* under its project name, and refuses when none is stored.
C15_LastWriteWins ==
  [][ /\ PlanAnswered =>
           /\ last'.req.projectName \in DOMAIN projects'
           /\ projects'[last'.req.projectName]
                = parseNaturalLanguage(last'.req.containers, last'.req.projectName)
           /\ \A q \in (DOMAIN projects \cup DOMAIN projects') \ {last'.req.projectName} :
                q \in DOMAIN projects /\ q \in DOMAIN projects'
                /\ projects'[q] = projects[q]
      /\ ~PlanAnswered => projects' = projects
      /\ ApplyAnswered /\ last'.req.projectName \in DOMAIN projects
         /\ ~last'.result.isError =>
           ServicesRun = {projects[last'.req.projectName].services[k].name :
                            k \in 1..Len(projects[last'.req.projectName].services)}
      /\ ApplyAnswered /\ last'.req.projectName \notin DOMAIN projects =>
           last'.result.isError /\ last'.result.cmds = <<>>
    ]_vars

\* plans are stored under both names, with different services, and the apply
\* for blog ran the services of the blog plan
C15_Witness ==
  /\ last.phase = "answered" /\ last.tool = "docker_compose_advanced"
  /\ last.req.action = "apply" /\ last.req.projectName = "blog"
  /\ ~last.result.isError
  /\ DOMAIN projects = {"shop", "blog"}
  /\ Len(projects["shop"].services) = 2 /\ Len(projects["blog"].services) = 1
  /\ \E k \in 1..Len(last.result.cmds) :
       Creates(last.result.cmds[k], "container", "blog-nginx")
  /\ \A k \in 1..Len(last.result.cmds) :
       ~Creates(last.result.cmds[k], "container", "blog-wordpress")

\* ---- C16 ---------------------------------------------------------------------------
MultiStep(t) == t.tool \in {"docker_compose_advanced", "docker_backup_migration"}

ConnectSucceeded(t) ==
  /\ t.state = "answered" /\ t.tool = "docker_remote_connection"
  /\ t.req.action = "connect" /\ ~t.result.isError

\* C16: every invocation of a multi-step request is started under the host
\* override that was in effect when the request arrived, and an answer that
\* reports a successful connection to a host is returned while the override
\* is that host.
C16_NoHazardOnTheOverride ==
  last.phase = "serving" =>
    \A i \in DOMAIN last.tasks :
      /\ MultiStep(last.tasks[i]) => last.tasks[i].targets \subseteq {last.tasks[i].startHost}
      /\ ConnectSucceeded(last.tasks[i]) =>
           Includes(last.tasks[i].result.content[1].text,
                    "Successfully connected to Docker host: "
                    \o last.tasks[i].override \o "\n")

\* an apply whose first invocation went to the local daemon and a later one to
\* the remote host, and a connect answered as successful after a disconnect
C16_SplitAcrossHosts ==
  /\ last.phase = "serving"
  /\ \E i \in DOMAIN last.tasks :
       /\ MultiStep(last.tasks[i]) /\ last.tasks[i].req.action = "apply"
       /\ last.tasks[i].state = "answered"
       /\ last.tasks[i].startHost = ""
       /\ last.tasks[i].targets = {"", RemoteHost}
  /\ \E i \in DOMAIN last.tasks :
       ConnectSucceeded(last.tasks[i]) /\ last.tasks[i].override = ""

\* ---- C17 ---------------------------------------------------------------------------
AnsweredAt(i) == last.tasks[i].state = "answered"

\* a program the request started is running and will never exit
HungAt(i) == last.tasks[i].awaiting \cap last.tasks[i].hangs # {}

\* the request is a performance request one of whose joined invocations failed
JoinedAndFailed(i) ==
  /\ last.tasks[i].tool = "docker_monitoring_advanced"
  /\ last.tasks[i].req.action = "performance"
  /\ last.tasks[i].ext.fails # {}

C18_ComposePhrasesAsDocumented ==
  Translated =>
    /\ Phrase = "compose up" => Issued = "docker-compose up -d"
    /\ Phrase = "compose down" => Issued = "docker-compose down"
    /\ Phrase \in {"compose status", "compose ps"} => Issued = "docker-compose ps"
    /\ Phrase = "compose build" => Issued = "docker-compose build"
    /\ \A s \in ServiceNames :
         /\ Phrase = "compose logs from " \o s => Issued = "docker-compose logs " \o s
         /\ Phrase = "restart service " \o s => Issued = "docker-compose restart " \o s

\* restart service api is run as docker start service
C18_RestartServiceStartsContainer ==
  /\ Translated
  /\ Phrase = "restart service api"
  /\ Issued = "docker start service"

\* ---- C19 ---------------------------------------------------------------------------
\* C19: connect container C to network N is translated to docker network
\* connect N C, and disconnect container C from network N to docker network
\* disconnect N C.
C19_NetworkFirstContainerSecond ==
  Translated =>
    \A c \in ContainerNames, n \in NetworkNames :
      /\ Phrase = "connect container " \o c \o " to network " \o n
           => Issued = "docker network connect " \o n \o " " \o c
      /\ Phrase = "disconnect container " \o c \o " from network " \o n
           => Issued = "docker network disconnect " \o n \o " " \o c

\* the word container is taken for the name of the container, and the name of
\* the container for the name of the network
C19_ContainerTakenForNetwork ==
  /\ Translated
  /\ Phrase = "connect container web to network backend"
  /\ Issued = "docker network connect web container"

\* ---- C20 ---------------------------------------------------------------------------
\* C20: create volume X and make volume X are translated to docker volume
\* create X, and create network X and make network X to docker network create X.
C20_CreateVolumeAndNetwork ==
  Translated =>
    \A v \in {"create", "make"}, x \in ContainerNames \cup {"mydata"} :
      /\ Phrase = v \o " volume " \o x => Issued = "docker volume create " \o x
      /\ Phrase = v \o " network " \o x => Issued = "docker network create " \o x

\* create volume mydata is caught by the build branch, which reads a group that
\* is not there
C20_CreateVolumeBuildsImage ==
  /\ Translated
  /\ Phrase = "create volume mydata"
  /\ Issued = "docker build -t undefined ."

\* ---- C21 ---------------------------------------------------------------------------
\* C21: the cleanup phrases are translated as documented: cleanup and prune
\* system to docker system prune -f, cleanup everything and prune all to docker
\* system prune -a -f, cleanup with volumes to docker system prune --volumes -f;
\* none of them is caught by an earlier branch of the cascade.
C21_CleanupPhrasesAsDocumented ==
  Translated =>
    /\ Phrase \in {"cleanup", "prune system"} => Issued = "docker system prune -f"
    /\ Phrase \in {"cleanup everything", "prune all"}
         => Issued = "docker system prune -a -f"
    /\ Phrase = "cleanup with volumes" => Issued = "docker system prune --volumes -f"

\* cleanup everything is caught by the version branch: /(version|ver)/ finds
\* ver in everything
C21_CleanupEverythingAsksVersion ==
  /\ Translated
  /\ Phrase = "cleanup everything"
  /\ Issued = "docker --version && docker-compose --version"

\* ---- C22 ---------------------------------------------------------------------------
\* a manage_images build request that names its image has been answered
BuildAnswered ==
  /\ last.phase = "answered"
  /\ last.tool = "manage_images" /\ last.req.action = "build"
  /\ last.req.image # ""

\* C22: manage_images build takes tag and dockerfile as required: a build
\* request without tag or without dockerfile is answered with an error and
\* without any external program having been run; a dockerfile that is given is
\* handed to docker build as the path of the Dockerfile (-f), not as the build
\* context.
C22_BuildRequiresTagAndDockerfile ==
  BuildAnswered =>
    /\ last.req.tag = "" \/ last.req.dockerfile = ""
         => last.result.isError /\ last.result.cmds = <<>>
    /\ last.req.tag # "" /\ last.req.dockerfile # ""
         => /\ Len(last.result.cmds) = 1
            /\ Includes(last.result.cmds[1], " -f " \o last.req.dockerfile)
            /\ last.result.cmds[1]
                 # "docker build -t " \o last.req.image \o ":" \o last.req.tag
                   \o " " \o last.req.dockerfile

\* a build without tag and without dockerfile has been run, in the current
\* directory, and answered as completed
C22_BuildRunWithoutTagAndDockerfile ==
  /\ BuildAnswered
  /\ last.req.image = "web" /\ last.req.tag = "" /\ last.req.dockerfile = ""
  /\ last.result.cmds = <<"docker build -t web .">>
  /\ ~last.result.isError

\* ---- C23 ---------------------------------------------------------------------------
\* an apply has been answered after one of its invocations failed
ApplyFailed == last.phase = "applied" /\ FailedInvocations # {}

\* a command that removes or stops a resource
Removes(cmd) ==
  \/ Includes(cmd, " rm ") \/ Includes(cmd, " rmi ")
  \/ Includes(cmd, " stop ") \/ Includes(cmd, " prune")

\* the failed invocation is the last one, no command is issued twice, none
\* removes anything, and the answer is an error
StopsAtTheFailure ==
  /\ \A k \in FailedInvocations : k = Len(last.result.cmds)
  /\ \A i, j \in 1..Len(last.result.cmds) :
       i # j => last.result.cmds[i] # last.result.cmds[j]
  /\ \A i \in 1..Len(last.result.cmds) : ~Removes(last.result.cmds[i])
  /\ last.result.isError

\* an apply that fails leaves the stored plans as they were
FailedApplyKeepsThePlan ==
  [][ApplyFailed' => projects' = projects]_vars

\* C23: when the k-th invocation of an apply fails, apply issues no further
\* invocation, does not issue the failed one again, issues no remove command
\* for what the k-1 invocations before it created, leaves the stored plan
\* unchanged, and the answer is an error whose text starts with Failed to apply
\* plan.
C23_FailedApplyOnlyReports ==
  /\ [](ApplyFailed =>
          StopsAtTheFailure /\ StartsWith(AnswerText, "Failed to apply plan"))
  /\ FailedApplyKeepsThePlan

\* C23 with the text the handler puts in front: the answer starts with Error
\* with Docker Compose operation: Failed to apply plan.
C23_FailedApplyReportsUnderHandlerPrefix ==
  /\ [](ApplyFailed =>
          /\ StopsAtTheFailure
          /\ StartsWith(AnswerText,
                        "Error with Docker Compose operation: Failed to apply plan"))
  /\ FailedApplyKeepsThePlan

\* the second invocation of an apply failed after the network had been created:
\* two invocations in all, and the plan is still stored
C23_Witness ==
  /\ ApplyFailed
  /\ last.ext.fails = {2}
  /\ Len(last.result.cmds) = 2
  /\ StartsWith(last.result.cmds[1], "docker network create")
  /\ last.req.projectName \in DOMAIN projects
  /\ last.result.isError

\* ---- C24 ---------------------------------------------------------------------------
\* where a command line stands in the order network, volumes, containers
Rank(cmd) ==
  CASE StartsWith(cmd, "docker network create ") -> 1
    [] StartsWith(cmd, "docker volume create ") -> 2
    [] StartsWith(cmd, "docker run ") -> 3
    [] OTHER -> 0

ProjectNetwork == last.req.projectName \o "-network"

\* the positions of the create command of the project network
NetworkPositions ==
  {k \in 1..Len(last.result.cmds) : Creates(last.result.cmds[k], "network", ProjectNetwork)}

VolumeKeys == {"mysql-data", "postgres-data"}

ApplyRan == last.phase = "applied" /\ last.req.projectName \in DOMAIN projects

\* C24: apply issues its commands in the order network, volumes, containers, one
\* at a time (a failure is the last invocation): the project network is created
\* iff the plan has more than one service, and then as the first command; every
\* named volume a container mounts as <project>-<volume> was created earlier in
\* the same apply under exactly that name; a container is attached to
\* <project>-network only if the create command of that network was issued
\* earlier in the same apply.
C24_NetworkThenVolumesThenContainers ==
  ApplyRan =>
    /\ \A i, j \in 1..Len(last.result.cmds) :
         /\ Rank(last.result.cmds[i]) \in 1..3
         /\ i < j => Rank(last.result.cmds[i]) <= Rank(last.result.cmds[j])
    /\ \A k \in FailedInvocations : k = Len(last.result.cmds)
    /\ NetworkPositions # {} <=> Len(AppliedPlan.services) > 1
    /\ NetworkPositions \subseteq {1}
    /\ \A k \in 1..Len(last.result.cmds) :
         /\ \A v \in VolumeKeys :
              Includes(last.result.cmds[k],
                       " -v " \o last.req.projectName \o "-" \o v \o ":")
                => \E j \in 1..(k - 1) :
                     Creates(last.result.cmds[j], "volume",
                             last.req.projectName \o "-" \o v)
         /\ Includes(last.result.cmds[k], " --network " \o ProjectNetwork \o " ")
              => \E j \in NetworkPositions : j < k
    /\ \A s \in 1..Len(AppliedPlan.services) :
         \A k \in RunPositions(AppliedPlan.services[s].name) :
           /\ Len(AppliedPlan.services) > 1
                => Includes(last.result.cmds[k], " --network " \o ProjectNetwork \o " ")
           /\ \A v \in 1..Len(AppliedPlan.services[s].volumes) :
                \E key \in VolumeKeys :
                  /\ StartsWith(AppliedPlan.services[s].volumes[v], key \o ":")
                  /\ Includes(last.result.cmds[k],
                              " -v " \o last.req.projectName \o "-" \o key \o ":")

\* the wordpress plan applied whole: the network, the volume, and then the two
\* containers, mysql mounting the volume and both attached to the network
C24_Witness ==
  /\ ApplyRan /\ AppliedWhole
  /\ Len(last.result.cmds) = 4
  /\ NetworkPositions = {1}
  /\ Creates(last.result.cmds[2], "volume", last.req.projectName \o "-mysql-data")
  /\ \E k \in RunPositions("mysql") :
       /\ k > 2
       /\ Includes(last.result.cmds[k],
                   " -v " \o last.req.projectName \o "-mysql-data:/var/lib/mysql")
       /\ Includes(last.result.cmds[k], " --network " \o ProjectNetwork \o " ")

\* ---- C25 ---------------------------------------------------------------------------
\* C25: no step forgets a name a plan was stored under, and an apply for a
\* project name under which no plan has been stored is answered with an error
\* that names the project (No plan found for project <name>) and without any
\* external program having been run, whatever plans are stored under other
\* names.
C25_ApplyWithoutPlanIsRefused ==
  [][ /\ DOMAIN projects \subseteq DOMAIN projects'
      /\ ApplyAnswered /\ last'.req.projectName \notin DOMAIN projects =>
           /\ last'.result.isError
           /\ last'.result.cmds = <<>>
           /\ Includes(last'.result.content[1].text,
                       "No plan found for project " \o last'.req.projectName)
    ]_vars

\* a plan is stored for shop and none for blog, and the apply for blog has been
\* refused without a command
C25_Witness ==
  /\ last.phase = "answered" /\ last.tool = "docker_compose_advanced"
  /\ last.req.action = "apply" /\ last.req.projectName = "blog"
  /\ DOMAIN projects = {"shop"}
  /\ last.result.isError /\ last.result.cmds = <<>>
  /\ Includes(last.result.content[1].text, "No plan found for project blog")

\* ---- C26 ---------------------------------------------------------------------------
\* the connect request has arrived, and the disconnect request has not
ConnectInEffect ==
  /\ last.tasks[2].req.action = "connect" /\ last.tasks[2].state # "waiting"
  /\ last.tasks[3].req.action = "disconnect" /\ last.tasks[3].state = "waiting"

ConnectTestFailed == 1 \in last.tasks[2].ext.fails

\* the host a connect request asks for: its host argument, with its user
\* argument written into an ssh:// URL that names no user
RequestedHost == ConnectHost(last.tasks[2].req)

\* C26: a connect request sets the host override and DOCKER_HOST to the host it
\* asks for before it tests the connection (the docker version of the test is
\* run against that host) and does not put the previous value back: when the
\* test fails the answer is an error, and the override is the new host all the
\* same, so that every invocation any request starts from then on, until the
\* disconnect, is run against that host.
C26_FailedConnectKeepsTheNewHost ==
  /\ [](ConnectInEffect =>
          /\ last.tasks[2].targets = {RequestedHost}
          /\ currentHost = RequestedHost
          /\ DOCKER_HOST = RequestedHost
          /\ last.tasks[2].state = "answered"
               => (last.tasks[2].result.isError <=> ConnectTestFailed))
  /\ [][ConnectInEffect' =>
          \A i \in 1..4 :
            last'.tasks[i].issued > last.tasks[i].issued
              => last'.tasks[i].targets = last.tasks[i].targets \cup {RequestedHost}]_vars

\* the connect was answered with an error, no disconnect has arrived, and a
\* request that arrived afterwards has run all its invocations against the
\* host of the failed connect
C26_Witness ==
  /\ ConnectInEffect /\ ConnectTestFailed
  /\ last.tasks[2].state = "answered" /\ last.tasks[2].result.isError
  /\ RequestedHost = "ssh://ops@remote"
  /\ DOCKER_HOST = RequestedHost /\ currentHost = RequestedHost
  /\ last.tasks[1].state = "answered"
  /\ last.tasks[1].startHost = RequestedHost
  /\ last.tasks[1].targets = {RequestedHost}
  /\ last.tasks[4].state = "running" /\ last.tasks[4].targets = {RequestedHost}

====
